---- MODULE Spec2Model ----
(***************************************************************************)
(* Component scope and lifecycle state machine of the yew fork:            *)
(*   packages/yew/src/html/component/lifecycle.rs  (ComponentState)        *)
(*   packages/yew/src/html/component/scope.rs      (Scope / AnyScope)      *)
(*   packages/yew/src/dom_bundle/mod.rs            (Bundle)                *)
(* Every lifecycle entry point is one action; the calls it makes           *)
(* synchronously (child mounts, prop updates and teardowns made by the     *)
(* reconciler) are part of the same action.  The scheduler, the Suspension *)
(* handle, the Suspense boundary and the per-node reconciler are not in    *)
(* the listed sources and are modelled from the design document.           *)
(***************************************************************************)
EXTENDS Integers, Sequences, FiniteSets, TLC

VARIABLES
    state,      \* AnyScope::state of every Scope: None or Some(ComponentState)
    counter,    \* COMP_ID_COUNTER
    parentOf,   \* Scope::parent (-1: no parent)
    queue,      \* the scheduler's FIFO of pending run_render closures
    resumed,    \* Suspension::resumed() of every Suspension
    listeners,  \* the resume callbacks installed on every Suspension
    boundary,   \* the Suspensions the Suspense boundary currently counts
    issued,     \* the Suspensions the application has created (Suspension::new)
    refs,       \* the node every NodeRef handed in as next_sibling points at
    rx,         \* the oneshot channel of every Scope rendered by the server
    out,        \* what was written to the stream of the server renderer, in order
    pc,         \* where the render_into_stream of every Scope stands
    hydratable, \* LocalServerRenderer::hydratable
    prepared_state, \* Context::prepared_state the component of every Scope was created with
    installs,   \* history: how many ComponentStates run_create put in a slot
    teardowns,  \* history: how many times ComponentState::destroy ran per Scope
    lastRun,    \* history: the Scope whose render the scheduler ran in the last step
    slot,       \* the node of the virtual tree rendered in the visible parent, if any
    dom,        \* the child nodes of every Element, in order
    fresh,      \* the identity the next node created gets
    panicked,   \* the program has stopped with a panic
    inner,      \* UseRefHandle::inner: the RefCell the use_ref hook of the component keeps
    debug_assertions, \* cfg(debug_assertions) of the build
    accessed,   \* history: what the last render or access of the handle did, in order
    aborted,    \* the program has stopped with a panic of the handle
    CTR,        \* the static CTR of the WorkerProvider
    memo,       \* the WorkerProviderState the use_memo of the provider keeps, with its deps
    providers,  \* every WorkerProviderState created, by its ctr
    agents,     \* the agents spawned, in order
    bridges,    \* the bridges create_bridge handed out, in order
    handle,     \* the UseBridgeHandle the use_memo of use_bridge keeps: on_output and inner
    passes,     \* history: how many times the component that calls use_bridge was rendered
    bridged,    \* history: how many times T::bridge was called
    delivered,  \* history: the outputs of the worker and the callback each was handed to
    capacity,   \* LocalServerRenderer::capacity
    writer,     \* the BufWriter of render_stream: None, or its buf and capacity
    tx,         \* the chunks sent to the stream and not yet received, in order
    closed,     \* the BufWriter was dropped: its sender is gone and the stream ends
    collected,  \* the String render_to_string pushes every chunk it receives to
    finished    \* render returned

lifecycle == <<state, counter, parentOf, queue, resumed, listeners, boundary, issued,
               refs, rx, out, pc, prepared_state, installs, teardowns, lastRun>>

streaming == <<capacity, writer, tx, closed, collected, finished>>

renderer == <<hydratable, streaming>>

document == <<slot, dom, fresh, panicked>>

hooks == <<inner, debug_assertions, accessed, aborted>>

bridging == <<handle, passes, bridged, delivered>>

agency == <<CTR, memo, providers, agents, bridges, bridging>>

vars == <<lifecycle, document, renderer, hooks, agency>>

----------------------------------------------------------------------------
\* Bounds of the model.

MaxScopes == 3
NSusp == 2
MaxQueue == 2
MaxListen == 2
MaxGen == 2
MaxNodes == 6

ScopeIds == 0 .. (MaxScopes - 1)
SuspIds == 1 .. NSusp
NoScope == -1

\* Option<T>
None == <<>>
Some(x) == <<x>>

\* Properties of the test components: a value, and whether the component
\* renders a child component; the child gets the value and renders no child.
PropsUniverse == [val : {"x", "y"}, kid : BOOLEAN]

Width(props) == IF "n" \in DOMAIN props THEN props.n ELSE 1

View(props) ==
    IF props.kid THEN [i \in 1 .. Width(props) |-> [val |-> props.val, kid |-> FALSE]]
    ELSE <<>>

\* NodeRef values handed in as next_sibling
DefaultRef == "a"
NodeRefs == {DefaultRef, "b"}
Trapped == "trapped"

\* NodeRef::default(): a cell that holds no node and is linked to no cell
Unlinked == "unlinked"

\* self.next_sibling.clone(): the NodeRef of a ComponentState, as it is handed
\* to the children the component renders
stable_next_sibling(s) == "s" \o ToString(s)

Range(s) == { s[i] : i \in 1 .. Len(s) }

\* the Element the root component and the Suspense boundary are rendered into
Visible == "visible"

\* what a physical node is when it is a text node
Text == "text"

\* what a physical node is when it is a script element, of the type of the
\* state of a component or of another type
StateScript == "application/x-yew-comp-state"
OtherScript == "text/javascript"

\* Realized: a Bundle, or the Fragment of the nodes the server sent
Realized_Bundle == [rendered |-> "Bundle", fragment |-> <<>>, sender |-> None]
Realized_Fragment(fragment) ==
    [rendered |-> "Fragment", fragment |-> fragment, sender |-> None]

\* Rendered::Ssr { sender: Some(tx) }
Realized_Ssr == [rendered |-> "Ssr", fragment |-> <<>>, sender |-> Some("tx")]

\* a Fragment without the text nodes it starts with
RECURSIVE TrimStart(_)
TrimStart(nodes) ==
    IF nodes # <<>> /\ nodes[1].tag = Text THEN TrimStart(Tail(nodes)) ELSE nodes

----------------------------------------------------------------------------
\* The mutable world the lifecycle functions act on.

\* reports: what the render function of each component reports during the
\* operation, 0 for a rendered layout or the Suspension it is waiting on.
World(reports) ==
    [ state |-> state, counter |-> counter, parentOf |-> parentOf, queue |-> queue,
      resumed |-> resumed, listeners |-> listeners, boundary |-> boundary,
      hook |-> reports, trace |-> <<>>, installs |-> installs, teardowns |-> teardowns,
      dom |-> dom, panicked |-> panicked, refs |-> refs,
      rx |-> rx, out |-> out, pc |-> pc, prepared_state |-> prepared_state ]

Reports == [ScopeIds -> 0 .. NSusp]
NoReports == [s \in ScopeIds |-> 0]

\* only the components taking part in an operation render during it, and they
\* wait on Suspensions the application has created
Renders(reports, involved) ==
    \A s \in ScopeIds : reports[s] # 0 => s \in involved /\ reports[s] \in issued

Emit(w, e) == [w EXCEPT !.trace = Append(@, e)]

\* Suspension::listen
listen(w, susp, s) ==
    Emit([w EXCEPT !.listeners[susp] = Append(@, s)], <<"listen", s, susp>>)

\* suspense::suspend_suspension / resume_suspension
suspend_suspension(w, susp) ==
    Emit([w EXCEPT !.boundary = @ \cup {susp}], <<"suspend_suspension", susp>>)

resume_suspension(w, susp) ==
    Emit([w EXCEPT !.boundary = @ \ {susp}], <<"resume_suspension", susp>>)

\* scheduler::push
push(w, s) == [w EXCEPT !.queue = Append(@, s)]

\* FunctionComponent::render of the test components
RenderResult(w, s, st) ==
    IF w.hook[s] = 0 THEN <<"Ok", View(st.props)>> ELSE <<"Suspended", w.hook[s]>>

\* a component that reported a Suspension that has resumed renders a layout
\* when it is asked again
AfterRender(w, s) ==
    [w EXCEPT !.hook[s] = IF @ # 0 /\ w.resumed[@] THEN 0 ELSE @]

\* Scope::new
Scope_new(w, parent) ==
    [w EXCEPT !.counter = @ + 1,
              !.parentOf = IF w.counter \in ScopeIds
                           THEN [@ EXCEPT ![w.counter] = parent] ELSE @]

\* ComponentState::new
new(props, mode, initial_render_state, next_sibling) ==
    [ props |-> props, creation_mode |-> mode,
      rendered |-> initial_render_state.rendered,
      fragment |-> initial_render_state.fragment,
      sender |-> initial_render_state.sender,
      suspension |-> 0, parent |-> Visible, next_sibling |-> next_sibling,
      pending_props |-> None, children |-> <<>> ]

\* ComponentState::resume_existing_suspension
resume_existing_suspension(w, st) ==
    IF st.suspension # 0
    THEN [w |-> resume_suspension(w, st.suspension), st |-> [st EXCEPT !.suspension = 0]]
    ELSE [w |-> w, st |-> st]

----------------------------------------------------------------------------
\* ComponentState (lifecycle.rs).  Each function takes the world and, where the
\* Rust method takes self, the ComponentState it acts on, and returns both.

RECURSIVE render(_, _, _), suspend(_, _, _, _), commit_render(_, _, _, _)
RECURSIVE changed(_, _, _, _, _), run_create(_, _, _, _, _, _)
RECURSIVE run_update_props(_, _, _, _), run_destroy(_, _, _), destroy(_, _, _, _)
RECURSIVE mount_in_place(_, _, _, _), hydrate_in_place(_, _, _, _)
RECURSIVE reconcile_list(_, _, _, _, _, _), hydrate_list(_, _, _, _), detach_list(_, _, _, _)

\* let r be the result v of a call in F
With(v, F(_)) == F(v)

\* ComponentState::rendered: the component's rendered hook
rendered(w, s, st) ==
    IF st.suspension = 0 THEN Emit(w, <<"rendered", s>>) ELSE w

\* Bundle::reconcile, for a layout that is a list of child components
Bundle_reconcile(w, s, st, new_root) ==
    With(reconcile_list(Emit(w, <<"reconcile", s>>), s, stable_next_sibling(s),
                        st.children, new_root, 1),
         LAMBDA r : [w |-> r.w, st |-> [st EXCEPT !.children = r.kids]])

\* Bundle::hydrate, for a layout that is a list of child components
Bundle_hydrate(w, s, st, new_root) ==
    With(hydrate_list(Emit(w, <<"hydrate", s>>), s, new_root, 1),
         LAMBDA r : [w |-> r.w, st |-> [st EXCEPT !.children = r.kids]])

\* Bundle::detach / Fragment::detach
Bundle_detach(w, s, st, parent_to_detach) ==
    detach_list(Emit(w, <<"detach", s>>), st.children, 1, parent_to_detach)

\* ComponentState::render
render(w, s, st) ==
    With(RenderResult(w, s, st),
         LAMBDA res :
             IF res[1] = "Ok"
             THEN commit_render(AfterRender(Emit(w, <<"view", s, st>>), s), s, st, res[2])
             ELSE suspend(AfterRender(Emit(w, <<"view", s, st>>), s), s, st, res[2]))

\* a suspend that installs no resume listener
suspend_unheard(w, s, st, suspension) ==
    LET w0 == Emit(w, <<"suspend", s, suspension, w.resumed[suspension], st>>)
    IN  IF w.resumed[suspension]
        THEN render(w0, s, st)
        ELSE [w  |-> suspend_suspension(
                         IF st.suspension # 0 /\ suspension # st.suspension
                         THEN resume_suspension(w0, st.suspension)
                         ELSE w0,
                         suspension),
              st |-> [st EXCEPT !.suspension = suspension]]

\* a suspend that does not look at Suspension::resumed
suspend_unchecked(w, s, st, suspension) ==
    LET w0 == Emit(w, <<"suspend", s, suspension, w.resumed[suspension], st>>)
        w1 == listen(w0, suspension, s)
    IN  [w  |-> suspend_suspension(
                    IF st.suspension # 0 /\ suspension # st.suspension
                    THEN resume_suspension(w1, st.suspension)
                    ELSE w1,
                    suspension),
         st |-> [st EXCEPT !.suspension = suspension]]

\* a suspend that keeps the old Suspension registered with the boundary
suspend_hoard(w, s, st, suspension) ==
    LET w0 == Emit(w, <<"suspend", s, suspension, w.resumed[suspension], st>>)
        w1 == listen(w0, suspension, s)
    IN  IF w.resumed[suspension]
        THEN render(w0, s, st)
        ELSE [w  |-> suspend_suspension(w1, suspension),
              st |-> [st EXCEPT !.suspension = suspension]]

\* ComponentState::suspend
suspend(w, s, st, suspension) ==
    LET w0 == Emit(w, <<"suspend", s, suspension, w.resumed[suspension], st>>)
        w1 == listen(w0, suspension, s)
    IN  IF w.resumed[suspension]
        THEN render(w0, s, st)
        ELSE [w  |-> suspend_suspension(
                         IF st.suspension # 0 /\ suspension # st.suspension
                         THEN resume_suspension(w1, st.suspension)
                         ELSE w1,
                         suspension),
              st |-> [st EXCEPT !.suspension = suspension]]

\* a commit_render that calls the rendered hook before it reconciles the layout
commit_render_hook_first(w, s, st, new_root) ==
    With(resume_existing_suspension(w, st),
         LAMBDA r0 :
             With(Bundle_reconcile(rendered(r0.w, s, r0.st), s, r0.st, new_root),
                  LAMBDA r1 : [w |-> r1.w, st |-> [r1.st EXCEPT !.rendered = "Bundle"]]))

\* Fragment::trim_start_text_nodes on the Fragment of a component: the text
\* nodes it starts with leave the parent
trimmed(w, fragment) ==
    [w EXCEPT !.dom[Visible] =
        SelectSeq(@, LAMBDA n : n \notin Range(fragment) \/ n \in Range(TrimStart(fragment)))]

\* an end of the hydration that leaves the component in Fragment state
end_of_component_fragment(w, s, st) ==
    IF TrimStart(st.fragment) = <<>>
    THEN [w  |-> Emit(trimmed(w, st.fragment), <<"end_of_component", s, <<>>>>),
          st |-> [st EXCEPT !.fragment = <<>>]]
    ELSE [w  |-> Emit([trimmed(w, st.fragment) EXCEPT !.panicked = TRUE],
                      <<"end_of_component", s, TrimStart(st.fragment)>>),
          st |-> [st EXCEPT !.fragment = TrimStart(@)]]

\* the end of the hydration of a component: the Fragment has to be empty
end_of_component(w, s, st) ==
    IF TrimStart(st.fragment) = <<>>
    THEN [w  |-> Emit(trimmed(w, st.fragment), <<"end_of_component", s, <<>>>>),
          st |-> [st EXCEPT !.rendered = "Bundle", !.fragment = <<>>]]
    ELSE [w  |-> Emit([trimmed(w, st.fragment) EXCEPT !.panicked = TRUE],
                      <<"end_of_component", s, TrimStart(st.fragment)>>),
          st |-> [st EXCEPT !.fragment = TrimStart(@)]]

\* a commit_render that makes a Bundle of whatever the hydration left
commit_render_lenient(w, s, st, new_root) ==
    With(resume_existing_suspension(w, st),
         LAMBDA r0 :
             IF r0.st.rendered = "Bundle"
             THEN With(Bundle_reconcile(r0.w, s, r0.st, new_root),
                       LAMBDA r1 :
                           IF r1.st.pending_props # None
                           THEN changed(rendered(r1.w, s, r1.st), s, r1.st, None, None)
                           ELSE [w |-> rendered(r1.w, s, r1.st), st |-> r1.st])
             ELSE With(Bundle_hydrate(r0.w, s, r0.st, new_root),
                       LAMBDA r1 :
                           [w  |-> Emit(trimmed(r1.w, r1.st.fragment),
                                        <<"end_of_component", s, TrimStart(r1.st.fragment)>>),
                            st |-> [r1.st EXCEPT !.rendered = "Bundle", !.fragment = <<>>]]))

\* the first layout of a component the server renders is sent to its
\* render_into_stream: if let Some(tx) = sender.take() { tx.send(new_root) }
send(w, s, st, new_root) ==
    IF st.sender # None
    THEN [w  |-> Emit([w EXCEPT !.rx[s] = Some(new_root)], <<"send", s>>),
          st |-> [st EXCEPT !.sender = None]]
    ELSE [w |-> w, st |-> st]

\* a commit_render that leaves the Suspension of the render before registered
commit_render_tracking(w, s, st, new_root) ==
    With([w |-> w, st |-> [st EXCEPT !.suspension = 0]],
         LAMBDA r0 :
             IF r0.st.rendered = "Bundle"
             THEN With(Bundle_reconcile(r0.w, s, r0.st, new_root),
                       LAMBDA r1 :
                           IF r1.st.pending_props # None
                           THEN changed(rendered(r1.w, s, r1.st), s, r1.st, None, None)
                           ELSE [w |-> rendered(r1.w, s, r1.st), st |-> r1.st])
             ELSE IF r0.st.rendered = "Ssr"
                  THEN send(r0.w, s, r0.st, new_root)
                  ELSE With(Bundle_hydrate(r0.w, s, r0.st, new_root),
                            LAMBDA r1 : end_of_component(r1.w, s, r1.st)))

\* ComponentState::commit_render
commit_render(w, s, st, new_root) ==
    With(resume_existing_suspension(w, st),
         LAMBDA r0 :
             IF r0.st.rendered = "Bundle"
             THEN With(Bundle_reconcile(r0.w, s, r0.st, new_root),
                       LAMBDA r1 :
                           IF r1.st.pending_props # None
                           THEN changed(rendered(r1.w, s, r1.st), s, r1.st, None, None)
                           ELSE [w |-> rendered(r1.w, s, r1.st), st |-> r1.st])
             ELSE IF r0.st.rendered = "Ssr"
                  THEN send(r0.w, s, r0.st, new_root)
                  ELSE With(Bundle_hydrate(r0.w, s, r0.st, new_root),
                            LAMBDA r1 : end_of_component(r1.w, s, r1.st)))

\* a link that leaves the cell linked to no other cell
link_unfollowed(st, next_sibling) ==
    [st EXCEPT !.next_sibling = IF next_sibling # None THEN Unlinked ELSE @]

\* the next sibling is linked (lifecycle.rs 289-294)
link(st, next_sibling) ==
    [st EXCEPT !.next_sibling = IF next_sibling # None THEN next_sibling[1] ELSE @]

\* props.or_else(|| self.pending_props.take())
taken(st, props) == IF props # None THEN props ELSE st.pending_props

\* a changed that, for a mounted component, asks for the render and leaves the
\* old props in the context
changed_stale(w, s, st, props, next_sibling) ==
    With(IF st.creation_mode = "Hydration"
         THEN IF taken(st, props) # None
              THEN IF st.rendered = "Bundle"
                   THEN [st |-> [link(st, next_sibling) EXCEPT
                                    !.pending_props = None,
                                    !.props = taken(st, props)[1]],
                         schedule_render |-> TRUE]
                   ELSE [st |-> [link(st, next_sibling) EXCEPT
                                    !.pending_props = taken(st, props)],
                         schedule_render |-> FALSE]
              ELSE [st |-> link(st, next_sibling), schedule_render |-> FALSE]
         ELSE IF props # None /\ props[1] # st.props
              THEN [st |-> link(st, next_sibling), schedule_render |-> TRUE]
              ELSE [st |-> link(st, next_sibling), schedule_render |-> FALSE],
         LAMBDA r :
             IF r.schedule_render
             THEN render(Emit(w, <<"changed", s, props, next_sibling, st>>), s, r.st)
             ELSE [w |-> Emit(w, <<"changed", s, props, next_sibling, st>>), st |-> r.st])

\* ComponentState::changed
changed(w, s, st, props, next_sibling) ==
    With(IF st.creation_mode = "Hydration"
         THEN IF taken(st, props) # None
              THEN IF st.rendered = "Bundle"
                   THEN [st |-> [link(st, next_sibling) EXCEPT
                                    !.pending_props = None,
                                    !.props = taken(st, props)[1]],
                         schedule_render |-> TRUE]
                   ELSE [st |-> [link(st, next_sibling) EXCEPT
                                    !.pending_props = taken(st, props)],
                         schedule_render |-> FALSE]
              ELSE [st |-> link(st, next_sibling), schedule_render |-> FALSE]
         ELSE IF props # None /\ props[1] # st.props
              THEN [st |-> [link(st, next_sibling) EXCEPT !.props = props[1]],
                    schedule_render |-> TRUE]
              ELSE [st |-> link(st, next_sibling), schedule_render |-> FALSE],
         LAMBDA r :
             IF r.schedule_render
             THEN render(Emit(w, <<"changed", s, props, next_sibling, st>>), s, r.st)
             ELSE [w |-> Emit(w, <<"changed", s, props, next_sibling, st>>), st |-> r.st])

\* ComponentState::destroy
destroy(w, s, st, parent_to_detach) ==
    With(resume_existing_suspension(
             Emit([w EXCEPT !.teardowns[s] = @ + 1], <<"destroy", s>>), st),
         LAMBDA r1 : Bundle_detach(r1.w, s, r1.st, parent_to_detach))

\* the state is put in the slot of s
assign(r, s) == [r.w EXCEPT !.state[s] = Some(r.st)]

\* ComponentState::run_create
run_create(w, s, props, mode, initial_render_state, next_sibling) ==
    IF w.state[s] = None
    THEN With(render(Emit(w, <<"run_create", s, TRUE>>), s,
                     new(props, mode, initial_render_state, next_sibling)),
              LAMBDA r : IF r.w.panicked THEN r.w
                         ELSE [assign(r, s) EXCEPT !.installs[s] = @ + 1])
    ELSE Emit(w, <<"run_create", s, FALSE>>)

\* ComponentState::run_render
run_render(w, s) ==
    IF w.state[s] # None
    THEN With(render(w, s, w.state[s][1]), LAMBDA r : assign(r, s))
    ELSE w

\* ComponentState::run_update_props
run_update_props(w, s, props, next_sibling) ==
    IF w.state[s] # None
    THEN With(changed(Emit(w, <<"run_update_props", s, TRUE>>), s, w.state[s][1],
                      props, next_sibling),
              LAMBDA r : assign(r, s))
    ELSE Emit(w, <<"run_update_props", s, FALSE>>)

\* a run_destroy that tears the component down and leaves it in its slot
run_destroy_peek(w, s, parent_to_detach) ==
    IF w.state[s] # None
    THEN destroy(Emit(w, <<"run_destroy", s, TRUE>>), s, w.state[s][1], parent_to_detach)
    ELSE Emit(w, <<"run_destroy", s, FALSE>>)

\* ComponentState::run_destroy
run_destroy(w, s, parent_to_detach) ==
    IF w.state[s] # None
    THEN destroy(Emit([w EXCEPT !.state[s] = None], <<"run_destroy", s, TRUE>>), s,
                 w.state[s][1], parent_to_detach)
    ELSE Emit(w, <<"run_destroy", s, FALSE>>)

\* AnyScope::schedule_render
schedule_render(w, s) == push(w, s)

\* Scope::reuse -> AnyScope::schedule_props_update
reuse(w, s, props, next_sibling) ==
    run_update_props(w, s, Some(props), Some(next_sibling))

\* a Scoped::destroy that tears down a copy of the state, not what the slot holds
Scoped_destroy_copy(w, s, parent_to_detach) ==
    [run_destroy(w, s, parent_to_detach) EXCEPT !.state[s] = w.state[s]]

\* Scoped::destroy
Scoped_destroy(w, s, parent_to_detach) == run_destroy(w, s, parent_to_detach)

\* let stable_next_sibling = NodeRef::default();
\* stable_next_sibling.link(next_sibling);
stable(next_sibling) == link([next_sibling |-> Unlinked], Some(next_sibling)).next_sibling

\* Scope::mount_in_place
mount_in_place(w, s, next_sibling, props) ==
    IF s \notin ScopeIds THEN w
    ELSE run_create(Emit(w, <<"create", s, "Render">>), s, props, "Render",
                    Realized_Bundle, stable(next_sibling))

\* fragment.back(), when it is a script element of the type of the state of a
\* component
back_state(fragment) ==
    IF fragment # <<>> /\ fragment[Len(fragment)].tag = StateScript
    THEN Some(fragment[Len(fragment)])
    ELSE None

\* m.text(): the state a script element carries
text(m) == <<"state of", m.id>>

\* fragment.pop_back()
pop_back(fragment) == SubSeq(fragment, 1, Len(fragment) - 1)

\* a hydrate_in_place that takes the state from a script element of any type
hydrate_in_place_untyped(w, s, fragment, props) ==
    IF s \notin ScopeIds THEN w
    ELSE IF fragment # <<>>
              /\ fragment[Len(fragment)].tag \in {StateScript, OtherScript}
         THEN run_create(
                  Emit(Emit([w EXCEPT
                                !.dom[Visible] =
                                    SelectSeq(@, LAMBDA n : n # fragment[Len(fragment)]),
                                !.prepared_state[s] =
                                    Some(text(fragment[Len(fragment)]))],
                            <<"remove_child", s, fragment[Len(fragment)]>>),
                       <<"create", s, "Hydration">>),
                  s, props, "Hydration", Realized_Fragment(pop_back(fragment)), Trapped)
         ELSE run_create(Emit(w, <<"create", s, "Hydration">>), s, props, "Hydration",
                         Realized_Fragment(fragment), Trapped)

\* Scope::hydrate_in_place
hydrate_in_place(w, s, fragment, props) ==
    IF s \notin ScopeIds THEN w
    ELSE IF back_state(fragment) # None
         THEN run_create(
                  Emit(Emit([w EXCEPT
                                !.dom[Visible] =
                                    SelectSeq(@, LAMBDA n : n # back_state(fragment)[1]),
                                !.prepared_state[s] =
                                    Some(text(back_state(fragment)[1]))],
                            <<"remove_child", s, back_state(fragment)[1]>>),
                       <<"create", s, "Hydration">>),
                  s, props, "Hydration", Realized_Fragment(pop_back(fragment)), Trapped)
         ELSE run_create(Emit(w, <<"create", s, "Hydration">>), s, props, "Hydration",
                         Realized_Fragment(fragment), Trapped)

\* the child at the head of a list of children and the rest of the list
cons(id, rest) == [w |-> rest.w, kids |-> <<id>> \o rest.kids]

\* The reconciler for a list of child components: an existing child at the same
\* position is reused, a new one is mounted, the children left over are detached.
reconcile_list(w, s, next_sibling, old, new_list, i) ==
    IF i > Len(new_list)
    THEN [w |-> detach_list(w, old, i, FALSE), kids |-> <<>>]
    ELSE IF i <= Len(old)
         THEN cons(old[i],
                   reconcile_list(reuse(w, old[i], new_list[i], next_sibling),
                                  s, next_sibling, old, new_list, i + 1))
         ELSE cons(w.counter,
                   reconcile_list(mount_in_place(Scope_new(w, s), w.counter, next_sibling,
                                                 new_list[i]),
                                  s, next_sibling, old, new_list, i + 1))

\* The hydration of a list of child components: every child is hydrated, from
\* the nodes between its own markers, which are what it renders.
hydrate_list(w, s, new_list, i) ==
    IF i > Len(new_list)
    THEN [w |-> w, kids |-> <<>>]
    ELSE cons(w.counter,
              hydrate_list(hydrate_in_place(Scope_new(w, s), w.counter, <<>>, new_list[i]),
                           s, new_list, i + 1))

\* The detaching of a list of child components: every child is destroyed.
detach_list(w, kids, i, parent_to_detach) ==
    IF i > Len(kids) THEN w
    ELSE detach_list(Scoped_destroy(w, kids[i], parent_to_detach), kids, i + 1,
                     parent_to_detach)

----------------------------------------------------------------------------
\* VSuspense (virtual_dom/vsuspense.rs): the Suspense boundary as a node of the
\* virtual tree.  Its children and its fallback are nodes of one element or
\* text each; the reconciler of such a node and the Fragment cursor are not in
\* the listed sources and are modelled from the design document.

\* Elements: the parent the boundary is rendered into and the detached parents
DetachedParents == {"d1", "d2"}
Parents == {Visible} \cup DetachedParents

\* physical nodes: what the node is and, for the nodes that are created,
\* cloned or sent by the server, which one it is
Tags == {"p", "q"}
Lead == [id |-> 0, tag |-> "lead"]
Anchor == [id |-> 0, tag |-> "anchor"]
Open == [id |-> 0, tag |-> "<?>"]
Close == [id |-> 0, tag |-> "</?>"]

\* the physical document the VSuspense functions act on
Document ==
    [ dom |-> dom, fresh |-> fresh, log |-> <<>>, panicked |-> panicked ]

Note(d, e) == [d EXCEPT !.log = Append(@, e)]

Without(seq, n) == SelectSeq(seq, LAMBDA x : x # n)

\* the position of the node n in seq, 0 if it is not there
Index(seq, n) ==
    IF \E i \in 1 .. Len(seq) : seq[i] = n
    THEN CHOOSE i \in 1 .. Len(seq) : seq[i] = n
    ELSE 0

\* Node::insert_before: the node leaves the parent it has and is put in
\* front of the reference node, at the end when there is none
insert_before(d, parent, n, next_sibling) ==
    LET gone == [q \in Parents |-> Without(d.dom[q], n)]
        at == IF next_sibling = None THEN 0 ELSE Index(gone[parent], next_sibling[1])
    IN  [d EXCEPT !.dom =
            [gone EXCEPT ![parent] =
                IF at = 0 THEN Append(@, n)
                ELSE SubSeq(@, 1, at - 1) \o <<n>> \o SubSeq(@, at, Len(@))]]

\* Node::remove_child
remove_child(d, parent, n) ==
    Note([d EXCEPT !.dom[parent] = Without(@, n)], <<"remove_child", parent, n>>)

RECURSIVE remove_all(_, _, _, _)
remove_all(d, parent, nodes, i) ==
    IF i > Len(nodes) THEN d
    ELSE remove_all(remove_child(d, parent, nodes[i]), parent, nodes, i + 1)

\* a node of the virtual tree that is one element
Leaf(tag) == [kind |-> "leaf", tag |-> tag, node |-> None]

\* VNode::detach of an element
VNode_detach(d, v, parent, parent_to_detach) ==
    IF parent_to_detach \/ v.node = None
    THEN Note(d, <<"detach", v.node, parent, parent_to_detach>>)
    ELSE [Note(d, <<"detach", v.node, parent, parent_to_detach>>)
             EXCEPT !.dom[parent] = Without(@, v.node[1])]

\* VNode::shift of an element
VNode_shift(d, v, previous_parent, next_parent, next_sibling) ==
    IF v.node = None
    THEN Note(d, <<"shift", v.node, previous_parent, next_parent, next_sibling>>)
    ELSE insert_before(
             Note(d, <<"shift", v.node, previous_parent, next_parent, next_sibling>>),
             next_parent, v.node[1], next_sibling)

\* VSuspenseFallback
Render(root_node) == [kind |-> "Render", root_node |-> root_node]
Hydration(fragment) == [kind |-> "Hydration", fragment |-> fragment]

\* VSuspense::new
VSuspense_new(children, fallback, detached_parent) ==
    [ kind |-> "suspense", children |-> children,
      fallback |-> IF fallback = None THEN None ELSE Some(Render(fallback[1])),
      detached_parent |-> detached_parent ]

\* VSuspense::detach
VSuspense_detach(d, self, parent, parent_to_detach) ==
    IF self.fallback = None
    THEN VNode_detach(d, self.children, parent, parent_to_detach)
    ELSE IF self.fallback[1].kind = "Render"
         THEN VNode_detach(VNode_detach(d, self.fallback[1].root_node, parent, parent_to_detach),
                           self.children, self.detached_parent, TRUE)
         ELSE VNode_detach(IF ~parent_to_detach
                           THEN remove_all(d, parent, self.fallback[1].fragment, 1)
                           ELSE d,
                           self.children, self.detached_parent, TRUE)

\* detach of any node of the virtual tree
detach(d, v, parent, parent_to_detach) ==
    IF v.kind = "suspense"
    THEN VSuspense_detach(d, v, parent, parent_to_detach)
    ELSE VNode_detach(d, v, parent, parent_to_detach)

\* VNode::apply of an element: an ancestor that is the same element is kept
\* where it is, any other ancestor is detached and a new element is created
VNode_apply(d, v, parent, next_sibling, ancestor) ==
    IF ancestor # None /\ ancestor[1].kind = "leaf" /\ ancestor[1].tag = v.tag
    THEN [d |-> Note(d, <<"apply", v.tag, parent, next_sibling, ancestor>>),
          v |-> [v EXCEPT !.node = ancestor[1].node]]
    ELSE With(IF ancestor # None
              THEN detach(Note(d, <<"apply", v.tag, parent, next_sibling, ancestor>>),
                          ancestor[1], parent, FALSE)
              ELSE Note(d, <<"apply", v.tag, parent, next_sibling, ancestor>>),
              LAMBDA d1 :
                  [d |-> Note(insert_before([d1 EXCEPT !.fresh = @ + 1], parent,
                                            [id |-> d1.fresh, tag |-> v.tag], next_sibling),
                              <<"create", [id |-> d1.fresh, tag |-> v.tag], parent>>),
                   v |-> [v EXCEPT !.node = Some([id |-> d1.fresh, tag |-> v.tag])]])

\* the program stops with a panic
panic(d, self, message) ==
    [d |-> Note([d EXCEPT !.panicked = TRUE], <<"panic", message>>), v |-> self]

\* the children are rendered and the fallback put in the result r of apply
rendering(self, c, fallback) ==
    [d |-> c.d, v |-> [self EXCEPT !.children = c.v, !.fallback = fallback]]

\* a still_suspended that renders the children into the parent
still_suspended_visible(d, self, parent, next_sibling, children_ancestor, fallback_ancestor) ==
    With(VNode_apply(d, self.children, parent, None, children_ancestor),
         LAMBDA c :
             With(VNode_apply(c.d, self.fallback[1].root_node, parent, next_sibling,
                              Some(fallback_ancestor.root_node)),
                  LAMBDA f : rendering(self, [d |-> f.d, v |-> c.v], Some(Render(f.v)))))

\* VSuspense::apply, "Currently Suspended, Continue to be Suspended" with a
\* rendered fallback on both sides
still_suspended(d, self, parent, next_sibling, children_ancestor, fallback_ancestor) ==
    With(VNode_apply(d, self.children, self.detached_parent, None, children_ancestor),
         LAMBDA c :
             With(VNode_apply(c.d, self.fallback[1].root_node, parent, next_sibling,
                              Some(fallback_ancestor.root_node)),
                  LAMBDA f : rendering(self, [d |-> f.d, v |-> c.v], Some(Render(f.v)))))

\* a still_hydrating that keeps the fallback the new node came with
still_hydrating_forgetful(d, self, parent, next_sibling, children_ancestor, fallback_ancestor) ==
    With(VNode_apply(d, self.children, self.detached_parent, None, children_ancestor),
         LAMBDA c : rendering(self, c, self.fallback))

\* VSuspense::apply, suspended with the fragment of the hydration as fallback
still_hydrating(d, self, parent, next_sibling, children_ancestor, fallback_ancestor) ==
    With(VNode_apply(d, self.children, self.detached_parent, None, children_ancestor),
         LAMBDA c : rendering(self, c, Some(Hydration(fallback_ancestor.fragment))))

\* VSuspense::apply, "Currently not Suspended, Continue to be not Suspended"
still_active(d, self, parent, next_sibling, children_ancestor) ==
    With(VNode_apply(d, self.children, parent, next_sibling, children_ancestor),
         LAMBDA c : rendering(self, c, None))

\* an about_to_suspend that leaves the children where they are
about_to_suspend_unshifted(d, self, parent, next_sibling, children_ancestor) ==
    With(VNode_apply(d, self.children, self.detached_parent, None, children_ancestor),
         LAMBDA c :
             With(VNode_apply(c.d, self.fallback[1].root_node, parent, next_sibling, None),
                  LAMBDA f : rendering(self, [d |-> f.d, v |-> c.v], Some(Render(f.v)))))

\* VSuspense::apply, "The children is about to be suspended"
about_to_suspend(d, self, parent, next_sibling, children_ancestor) ==
    With(VNode_apply(IF children_ancestor # None
                     THEN VNode_shift(d, children_ancestor[1], parent,
                                      self.detached_parent, None)
                     ELSE d,
                     self.children, self.detached_parent, None, children_ancestor),
         LAMBDA c :
             With(VNode_apply(c.d, self.fallback[1].root_node, parent, next_sibling, None),
                  LAMBDA f : rendering(self, [d |-> f.d, v |-> c.v], Some(Render(f.v)))))

\* the children are shifted back and rendered in the parent
shift_back(d, self, parent, next_sibling, children_ancestor) ==
    With(VNode_apply(IF children_ancestor # None
                     THEN VNode_shift(d, children_ancestor[1], self.detached_parent,
                                      parent, next_sibling)
                     ELSE d,
                     self.children, parent, next_sibling, children_ancestor),
         LAMBDA c : rendering(self, c, None))

\* an about_to_resume that reconciles the children before it shifts them
about_to_resume_late(d, self, parent, next_sibling, children_ancestor, fallback_ancestor) ==
    With(VNode_apply(IF fallback_ancestor.kind = "Render"
                     THEN VNode_detach(d, fallback_ancestor.root_node, parent, FALSE)
                     ELSE remove_all(d, parent, fallback_ancestor.fragment, 1),
                     self.children, parent, next_sibling, children_ancestor),
         LAMBDA c :
             rendering(self,
                       [d |-> VNode_shift(c.d, c.v, self.detached_parent, parent, next_sibling),
                        v |-> c.v],
                       None))

\* an about_to_resume that leaves the fallback in the parent
about_to_resume_keeping(d, self, parent, next_sibling, children_ancestor, fallback_ancestor) ==
    shift_back(d, self, parent, next_sibling, children_ancestor)

\* VSuspense::apply, "The children is about to be resumed"
about_to_resume(d, self, parent, next_sibling, children_ancestor, fallback_ancestor) ==
    IF fallback_ancestor.kind = "Render"
    THEN shift_back(VNode_detach(d, fallback_ancestor.root_node, parent, FALSE),
                    self, parent, next_sibling, children_ancestor)
    ELSE shift_back(remove_all(d, parent, fallback_ancestor.fragment, 1),
                    self, parent, next_sibling, children_ancestor)

\* a transition that takes a fallback that cannot be for no fallback at all
transition_repairing(d, self, parent, next_sibling, children_ancestor, fallback_ancestor) ==
    IF self.fallback # None /\ fallback_ancestor # None
    THEN IF self.fallback[1].kind = "Render" /\ fallback_ancestor[1].kind = "Render"
         THEN still_suspended(d, self, parent, next_sibling, children_ancestor,
                              fallback_ancestor[1])
         ELSE IF fallback_ancestor[1].kind = "Render"
              THEN about_to_resume(d, [self EXCEPT !.fallback = None], parent, next_sibling,
                                   children_ancestor, fallback_ancestor[1])
              ELSE still_hydrating(d, self, parent, next_sibling, children_ancestor,
                                   fallback_ancestor[1])
    ELSE IF self.fallback = None /\ fallback_ancestor = None
    THEN still_active(d, self, parent, next_sibling, children_ancestor)
    ELSE IF self.fallback # None
    THEN IF self.fallback[1].kind = "Render"
         THEN about_to_suspend(d, self, parent, next_sibling, children_ancestor)
         ELSE still_active(d, [self EXCEPT !.fallback = None], parent, next_sibling,
                           children_ancestor)
    ELSE about_to_resume(d, self, parent, next_sibling, children_ancestor,
                         fallback_ancestor[1])

\* VSuspense::apply, the match on the two fallbacks
transition(d, self, parent, next_sibling, children_ancestor, fallback_ancestor) ==
    IF self.fallback # None /\ fallback_ancestor # None
    THEN IF self.fallback[1].kind = "Render" /\ fallback_ancestor[1].kind = "Render"
         THEN still_suspended(d, self, parent, next_sibling, children_ancestor,
                              fallback_ancestor[1])
         ELSE IF fallback_ancestor[1].kind = "Render"
              THEN panic(d, self, "invalid suspense state!")
              ELSE still_hydrating(d, self, parent, next_sibling, children_ancestor,
                                   fallback_ancestor[1])
    ELSE IF self.fallback = None /\ fallback_ancestor = None
    THEN still_active(d, self, parent, next_sibling, children_ancestor)
    ELSE IF self.fallback # None
    THEN IF self.fallback[1].kind = "Render"
         THEN about_to_suspend(d, self, parent, next_sibling, children_ancestor)
         ELSE panic(d, self, "invalid suspense state!")
    ELSE about_to_resume(d, self, parent, next_sibling, children_ancestor,
                         fallback_ancestor[1])

\* VSuspense::apply
VSuspense_apply(d, self, parent, next_sibling, ancestor) ==
    IF ancestor = None
    THEN transition(d, self, parent, next_sibling, None, None)
    ELSE IF ancestor[1].kind = "suspense"
              /\ self.detached_parent = ancestor[1].detached_parent
         THEN transition(d, self, parent, next_sibling, Some(ancestor[1].children),
                         ancestor[1].fallback)
         ELSE transition(detach(d, ancestor[1], parent, FALSE), self, parent,
                         next_sibling, None, None)

\* Fragment::collect_between: the nodes between the markers of the boundary
\* at the head of the cursor; the markers leave the parent
collect_between(d, fragment, parent) ==
    [d |-> remove_child(remove_child(d, parent, Open), parent, Close),
     nodes |-> SubSeq(fragment, Index(fragment, Open) + 1, Index(fragment, Close) - 1),
     rest |-> SubSeq(fragment, Index(fragment, Close) + 1, Len(fragment))]

\* Fragment::deep_clone followed by append_child of every clone
RECURSIVE append_clones(_, _, _, _)
append_clones(d, nodes, parent, i) ==
    IF i > Len(nodes) THEN [d |-> d, nodes |-> <<>>]
    ELSE With(append_clones(insert_before([d EXCEPT !.fresh = @ + 1], parent,
                                          [id |-> d.fresh, tag |-> nodes[i].tag], None),
                            nodes, parent, i + 1),
              LAMBDA r : [d |-> r.d,
                          nodes |-> <<[id |-> d.fresh, tag |-> nodes[i].tag]>> \o r.nodes])

\* Fragment::trim_start_text_nodes
RECURSIVE trim_start_text_nodes(_, _, _)
trim_start_text_nodes(d, nodes, parent) ==
    IF nodes # <<>> /\ nodes[1].tag = Text
    THEN trim_start_text_nodes(remove_child(d, parent, nodes[1]), Tail(nodes), parent)
    ELSE [d |-> d, nodes |-> nodes]

\* VNode::hydrate of an element: it takes the node at the head of the cursor,
\* which has to be that element
VNode_hydrate(d, v, parent, nodes) ==
    IF nodes # <<>> /\ nodes[1].tag = v.tag
    THEN [d |-> Note(d, <<"hydrate", v.tag, parent>>),
          v |-> [v EXCEPT !.node = Some(nodes[1])], nodes |-> Tail(nodes)]
    ELSE [d |-> Note([d EXCEPT !.panicked = TRUE], <<"panic", "expected element">>),
          v |-> v, nodes |-> nodes]

\* VSuspense::hydrate
VSuspense_hydrate(d, self, parent, fragment) ==
    With(collect_between(d, fragment, parent),
         LAMBDA fallback_nodes :
             With(append_clones(fallback_nodes.d, fallback_nodes.nodes,
                                self.detached_parent, 1),
                  LAMBDA nodes :
                      With(VNode_hydrate(nodes.d, self.children, self.detached_parent,
                                         nodes.nodes),
                           LAMBDA c :
                               IF c.d.panicked
                               THEN [d |-> c.d, v |-> self, fragment |-> fallback_nodes.rest]
                               ELSE With(trim_start_text_nodes(c.d, c.nodes,
                                                               self.detached_parent),
                                         LAMBDA left :
                                             IF left.nodes # <<>>
                                             THEN [d |-> panic(left.d, self,
                                                        "expected end of suspense, found node.").d,
                                                   v |-> [self EXCEPT !.children = c.v],
                                                   fragment |-> fallback_nodes.rest]
                                             ELSE [d |-> left.d,
                                                   v |-> [self EXCEPT
                                                             !.children = c.v,
                                                             !.fallback =
                                                                 Some(Hydration(fallback_nodes.nodes))],
                                                   fragment |-> fallback_nodes.rest]))))

----------------------------------------------------------------------------
\* The relocation of a realized component (lifecycle.rs, dom_bundle/mod.rs,
\* scope.rs).  NodeRef and the shift of a layout are not in the listed
\* sources: a NodeRef is a cell that holds a node or is linked to another
\* cell, and a layout that is a list of child components shifts every child.

\* the Scope whose ComponentState owns the NodeRef, NoScope if none does
OwnerOf(node_ref) ==
    IF \E s \in ScopeIds : node_ref = stable_next_sibling(s)
    THEN CHOOSE s \in ScopeIds : node_ref = stable_next_sibling(s)
    ELSE NoScope

\* NodeRef::get: the node of the cell, read through the cells it is linked to
RECURSIVE NodeRef_get(_, _)
NodeRef_get(w, node_ref) ==
    IF node_ref \in NodeRefs THEN w.refs[node_ref]
    ELSE IF OwnerOf(node_ref) # NoScope /\ w.state[OwnerOf(node_ref)] # None
         THEN NodeRef_get(w, w.state[OwnerOf(node_ref)][1].next_sibling)
         ELSE None

\* NodeRef::set
NodeRef_set(w, node_ref, node) == [w EXCEPT !.refs[node_ref] = node]

\* Fragment::shift: every node of the fragment is put in the next parent
RECURSIVE Fragment_shift(_, _, _, _, _)
Fragment_shift(w, fragment, next_parent, next_sibling, i) ==
    IF i > Len(fragment) THEN w
    ELSE Fragment_shift(insert_before(w, next_parent, fragment[i],
                                      NodeRef_get(w, next_sibling)),
                        fragment, next_parent, next_sibling, i + 1)

RECURSIVE shift_node(_, _, _, _), shift_list(_, _, _, _, _)

\* Bundle::shift
Bundle_shift(w, s, st, new_parent, new_next_sibling) ==
    shift_list(Emit(w, <<"Bundle_shift", s, new_parent, new_next_sibling>>),
               st.children, 1, new_parent, stable_next_sibling(s))

\* a shift that renders the component in its new place
shift_rendering(w, s, st, next_parent, next_next_sibling) ==
    render(IF st.rendered = "Bundle"
           THEN Bundle_shift(w, s, st, next_parent, next_next_sibling)
           ELSE Fragment_shift(Emit(w, <<"Fragment_shift", s, next_parent,
                                         next_next_sibling>>),
                               st.fragment, next_parent, next_next_sibling, 1),
           s, [link(st, Some(next_next_sibling)) EXCEPT !.parent = next_parent])

\* a shift that moves the realized subtree and leaves the Slot as it was
shift_unlinked(w, s, st, next_parent, next_next_sibling) ==
    [w |-> IF st.rendered = "Bundle"
           THEN Bundle_shift(w, s, st, next_parent, next_next_sibling)
           ELSE Fragment_shift(Emit(w, <<"Fragment_shift", s, next_parent,
                                         next_next_sibling>>),
                               st.fragment, next_parent, next_next_sibling, 1),
     st |-> [st EXCEPT !.parent = next_parent]]

\* ComponentState::shift
shift(w, s, st, next_parent, next_next_sibling) ==
    [w |-> IF st.rendered = "Bundle"
           THEN Bundle_shift(w, s, st, next_parent, next_next_sibling)
           ELSE Fragment_shift(Emit(w, <<"Fragment_shift", s, next_parent,
                                         next_next_sibling>>),
                               st.fragment, next_parent, next_next_sibling, 1),
     st |-> [link(st, Some(next_next_sibling)) EXCEPT !.parent = next_parent]]

\* Scoped::shift_node
shift_node(w, s, parent, next_sibling) ==
    IF w.state[s] # None
    THEN With(shift(Emit(w, <<"shift_node", s, TRUE>>), s, w.state[s][1],
                    parent, next_sibling),
              LAMBDA r : assign(r, s))
    ELSE Emit(w, <<"shift_node", s, FALSE>>)

\* the shift of a layout that is a list of child components
shift_list(w, kids, i, parent, next_sibling) ==
    IF i > Len(kids) THEN w
    ELSE shift_list(shift_node(w, kids[i], parent, next_sibling), kids, i + 1,
                    parent, next_sibling)

\* BundleLocation::new_child
BundleLocation_new_child(parent_element, next_sibling) ==
    [ parent |-> parent_element, next_sibling |-> stable(next_sibling) ]

----------------------------------------------------------------------------
\* Server-side rendering (scope.rs feat_ssr, server_renderer.rs, vsuspense.rs
\* feat_ssr).  The layout of a component the server renders is an element when
\* it has no child component, and a Suspense boundary around its child
\* components when it has some.  The markers of a component are written by
\* Collectable, which is not in the listed sources.

\* a string written to the stream: what it is and the Scope it was written for
Token(kind, s) == [kind |-> kind, s |-> s]

\* w.write_str / write_open_tag / write_close_tag
write(w, token) ==
    Emit([w EXCEPT !.out = Append(@, token)], <<"write", token.s, token.kind>>)

\* the await the render_into_stream of s is pending on
Idle == [at |-> "idle", i |-> 0, child |-> NoScope]
park(w, s, at, i, child) == [w EXCEPT !.pc[s] = [at |-> at, i |-> i, child |-> child]]

RECURSIVE render_into_stream(_, _, _, _, _), received(_, _, _, _)
RECURSIVE VNode_render_into_stream(_, _, _, _, _, _), poll(_, _, _, _)
RECURSIVE VSuspense_render_to_string(_, _, _, _, _, _)

\* a render_into_stream that ends the Scope before it writes what is left
written_late(w, s, hydratable_, prepared) ==
    With(run_destroy(w, s, FALSE),
         LAMBDA w0 :
             With(IF prepared[s] THEN write(w0, Token("state", s)) ELSE w0,
                  LAMBDA w1 :
                      park(IF hydratable_ THEN write(w1, Token("close", s)) ELSE w1,
                           s, "end", 0, NoScope)))

\* render_into_stream after the html was written: the state of the component,
\* the close marker, and the end of the Scope
written(w, s, hydratable_, prepared) ==
    With(IF prepared[s] THEN write(w, Token("state", s)) ELSE w,
         LAMBDA w1 :
             park(run_destroy(IF hydratable_ THEN write(w1, Token("close", s)) ELSE w1,
                              s, FALSE),
                  s, "end", 0, NoScope))

\* a render_to_string that writes the fallback while a child is awaited
VSuspense_render_to_string_fallback(w, s, html, i, hydratable_, prepared) ==
    With(IF i = 1 /\ hydratable_ THEN write(w, Token("<?>", s)) ELSE w,
         LAMBDA w0 :
             IF i > Len(html)
             THEN IF hydratable_ THEN write(w0, Token("</?>", s)) ELSE w0
             ELSE With(render_into_stream(Scope_new(w0, s), w0.counter, html[i],
                                          hydratable_, prepared),
                       LAMBDA w1 :
                           IF w1.pc[w0.counter].at = "end"
                           THEN VSuspense_render_to_string(w1, s, html, i + 1,
                                                           hydratable_, prepared)
                           ELSE park(write(w1, Token("fallback", s)), s, "child", i,
                                     w0.counter)))

\* VSuspense::render_to_string, from the child at position i on: the children
\* are rendered one after the other, each awaited before the next starts
VSuspense_render_to_string(w, s, html, i, hydratable_, prepared) ==
    With(IF i = 1 /\ hydratable_ THEN write(w, Token("<?>", s)) ELSE w,
         LAMBDA w0 :
             IF i > Len(html)
             THEN IF hydratable_ THEN write(w0, Token("</?>", s)) ELSE w0
             ELSE With(render_into_stream(Scope_new(w0, s), w0.counter, html[i],
                                          hydratable_, prepared),
                       LAMBDA w1 :
                           IF w1.pc[w0.counter].at = "end"
                           THEN VSuspense_render_to_string(w1, s, html, i + 1,
                                                           hydratable_, prepared)
                           ELSE park(w1, s, "child", i, w0.counter)))

\* html.render_into_stream and what follows it in render_into_stream
VNode_render_into_stream(w, s, html, i, hydratable_, prepared) ==
    IF html = <<>>
    THEN written(write(w, Token("html", s)), s, hydratable_, prepared)
    ELSE With(VSuspense_render_to_string(w, s, html, i, hydratable_, prepared),
              LAMBDA w1 : IF w1.pc[s].at = "child" /\ w1.pc[w1.pc[s].child].at # "end"
                          THEN w1
                          ELSE written(w1, s, hydratable_, prepared))

\* rx.await: pending until the component has sent its first layout
received(w, s, hydratable_, prepared) ==
    IF w.rx[s] = None THEN w
    ELSE VNode_render_into_stream(w, s, w.rx[s][1], 1, hydratable_, prepared)

\* Scope::render_into_stream, up to the first await that is pending
render_into_stream(w, s, props, hydratable_, prepared) ==
    IF s \notin ScopeIds THEN w
    ELSE With(run_create(Emit(w, <<"create", s, "Ssr">>), s, props, "Ssr",
                         Realized_Ssr, Unlinked),
              LAMBDA w1 :
                  received(park(IF hydratable_ THEN write(w1, Token("open", s)) ELSE w1,
                                s, "rx", 0, NoScope),
                           s, hydratable_, prepared))

\* the task of render_stream is polled: the await that was pending is tried
\* again, in the render_into_stream of the Scope that is being awaited
poll(w, s, hydratable_, prepared) ==
    IF w.pc[s].at = "rx" THEN received(w, s, hydratable_, prepared)
    ELSE IF w.pc[s].at = "child"
         THEN With(poll(w, w.pc[s].child, hydratable_, prepared),
                   LAMBDA w1 :
                       IF w1.pc[w.pc[s].child].at = "end"
                       THEN VNode_render_into_stream(w1, s, w1.rx[s][1], w.pc[s].i + 1,
                                                     hydratable_, prepared)
                       ELSE w1)
         ELSE w

----------------------------------------------------------------------------
\* The buffered writer of the server renderer (server_renderer.rs).  A String
\* is its text and the capacity of its allocation; a character is the index
\* of the write that produced it and its position in the part written, so
\* that no two characters written are the same.

DEFAULT_BUF_SIZE == 8192

Largest(S) == CHOOSE n \in S : \A m \in S : m <= n

\* String::with_capacity
String_with_capacity(c) == [text |-> <<>>, cap |-> c]

\* String::push_str: the allocation grows when the text does not fit, to
\* twice what it was or to what is needed, whichever is more
push_str(str, s) ==
    [text |-> str.text \o s,
     cap |-> IF Len(str.text) + Len(s) <= str.cap
             THEN str.cap
             ELSE Largest({2 * str.cap, Len(str.text) + Len(s)})]

\* BufWriter::with_capacity, with the receiving end of the channel at tx
BufWriter_with_capacity(c, chunks) ==
    [buf |-> String_with_capacity(c), tx |-> chunks, capacity |-> c]

\* self.tx.unbounded_send(buf) of the buffer swapped for a new one
send_buf(self) ==
    [self EXCEPT !.buf = String_with_capacity(self.capacity),
                 !.tx = Append(@, self.buf.text)]

\* a write that sends a part longer than the capacity without the buffer
\* before it
BufWriter_write_alone(self, s) ==
    IF Len(s) > self.capacity
    THEN [self EXCEPT !.buf = String_with_capacity(self.capacity),
                      !.tx = Append(@, s)]
    ELSE IF self.buf.cap >= Len(s)
    THEN [self EXCEPT !.buf = push_str(@, s)]
    ELSE [self EXCEPT !.buf = push_str(String_with_capacity(self.capacity), s),
                      !.tx = Append(@, self.buf.text)]

\* BufWriter::write
BufWriter_write(self, s) ==
    IF Len(s) > self.capacity
    THEN With(IF self.buf.text # <<>> THEN send_buf(self) ELSE self,
              LAMBDA flushed : [flushed EXCEPT !.tx = Append(@, s)])
    ELSE IF self.buf.cap >= Len(s)
    THEN [self EXCEPT !.buf = push_str(@, s)]
    ELSE [self EXCEPT !.buf = push_str(String_with_capacity(self.capacity), s),
                      !.tx = Append(@, self.buf.text)]

\* Drop for BufWriter
BufWriter_drop(self) ==
    IF self.buf.text # <<>> THEN send_buf(self) ELSE self

\* the number of characters of a string written to the stream
Size(token) ==
    CASE token.kind = "part" -> token.s
      [] token.kind = "html" -> 2
      [] token.kind = "state" -> 3
      [] OTHER -> 1

\* the string the k-th write was handed
Str(k, token) == [j \in 1..Size(token) |-> <<k, j>>]

\* the concatenation of the strings written from the from-th on
RECURSIVE Written(_, _)
Written(tokens, from) ==
    IF from > Len(tokens) THEN <<>>
    ELSE Str(from, tokens[from]) \o Written(tokens, from + 1)

\* the concatenation of chunks
RECURSIVE Flatten(_)
Flatten(chunks) ==
    IF chunks = <<>> THEN <<>> ELSE Head(chunks) \o Flatten(Tail(chunks))

\* the writer after the writes of tokens from the from-th on
RECURSIVE write_all(_, _, _)
write_all(self, tokens, from) ==
    IF from > Len(tokens) THEN self
    ELSE write_all(BufWriter_write(self, Str(from, tokens[from])), tokens, from + 1)

\* a task that keeps its writer when the render_into_stream of the root has
\* finished
Streamed_kept(w) ==
    IF w.pc[0] = Idle \/ closed
    THEN UNCHANGED <<writer, tx, closed>>
    ELSE With(write_all(IF writer = None
                        THEN BufWriter_with_capacity(capacity, tx)
                        ELSE [buf |-> writer[1].buf, tx |-> tx,
                              capacity |-> writer[1].capacity],
                        w.out, Len(out) + 1),
              LAMBDA self :
                  /\ writer' = Some([buf |-> self.buf, capacity |-> self.capacity])
                  /\ tx' = self.tx
                  /\ closed' = FALSE)

\* What a step of the render_into_stream of the root does to the stream:
\* render_stream creates the writer, every string written goes through
\* BufWriter::write, and the writer is dropped with the task when the
\* render_into_stream of the root has finished.
Streamed(w) ==
    IF w.pc[0] = Idle \/ closed
    THEN UNCHANGED <<writer, tx, closed>>
    ELSE With(write_all(IF writer = None
                        THEN BufWriter_with_capacity(capacity, tx)
                        ELSE [buf |-> writer[1].buf, tx |-> tx,
                              capacity |-> writer[1].capacity],
                        w.out, Len(out) + 1),
              LAMBDA self :
                  IF w.pc[0].at = "end"
                  THEN /\ writer' = None
                       /\ tx' = BufWriter_drop(self).tx
                       /\ closed' = TRUE
                  ELSE /\ writer' = Some([buf |-> self.buf, capacity |-> self.capacity])
                       /\ tx' = self.tx
                       /\ closed' = FALSE)

----------------------------------------------------------------------------
\* The state machine.

Started ==
    /\ state = [s \in ScopeIds |-> None]
    /\ counter = 0
    /\ parentOf = [s \in ScopeIds |-> NoScope]
    /\ queue = <<>>
    /\ resumed = [i \in SuspIds |-> FALSE]
    /\ listeners = [i \in SuspIds |-> <<>>]
    /\ boundary = {}
    /\ refs = [n \in NodeRefs |-> None]
    /\ rx = [s \in ScopeIds |-> None]
    /\ out = <<>>
    /\ pc = [s \in ScopeIds |-> Idle]
    /\ prepared_state = [s \in ScopeIds |-> None]
    /\ hydratable = TRUE
    /\ capacity = DEFAULT_BUF_SIZE
    /\ writer = None
    /\ tx = <<>>
    /\ closed = FALSE
    /\ collected = <<>>
    /\ finished = FALSE
    /\ installs = [s \in ScopeIds |-> 0]
    /\ teardowns = [s \in ScopeIds |-> 0]
    /\ lastRun = NoScope

\* no component has used the use_ref hook yet
Unhooked ==
    /\ inner = None
    /\ accessed = <<>>
    /\ aborted = FALSE

\* no WorkerProvider has been rendered yet
Unprovided ==
    /\ CTR = 0
    /\ memo = None
    /\ providers = <<>>
    /\ agents = <<>>
    /\ bridges = <<>>
    /\ handle = None
    /\ passes = 0
    /\ bridged = 0
    /\ delivered = <<>>

\* the program after construction, built with debug assertions
Constructed == Started /\ Unhooked /\ debug_assertions = TRUE /\ Unprovided

\* a page with nothing rendered between the two nodes of the visible parent
Blank ==
    /\ slot = None
    /\ dom = [q \in Parents |-> IF q = Visible THEN <<Lead, Anchor>> ELSE <<>>]
    /\ fresh = 1
    /\ panicked = FALSE

\* an application whose components all wait on one resource
Init == Constructed /\ issued = {1} /\ Blank

\* an application whose components wait on any of the resources
InitTwo == Constructed /\ issued = SuspIds /\ Blank

\* what the server sent between the markers of a Suspense boundary
Pages == { <<>>, <<"p">>, <<"p", Text>>, <<"p", "q">>, <<Text, "p">> }

ServerNodes(page) == [i \in 1 .. Len(page) |-> [id |-> i, tag |-> page[i]]]

\* a page the server rendered
Served(page) ==
    /\ slot = None
    /\ dom = [q \in Parents |->
                 IF q = Visible
                 THEN <<Lead, Open>> \o ServerNodes(page) \o <<Close, Anchor>>
                 ELSE <<>>]
    /\ fresh = Len(page) + 1
    /\ panicked = FALSE

\* a Suspense boundary alone in its parent, rendered by the client or sent by
\* the server
InitSuspense ==
    /\ Constructed
    /\ issued = {1}
    /\ Blank \/ \E page \in Pages : Served(page)

\* a component whose next committed render creates a child component
NeedsChild(st) ==
    /\ st.rendered # "Ssr"
    /\ st.children = <<>>
    /\ \/ View(st.props) # <<>>
       \/ st.pending_props # None /\ View(st.pending_props[1]) # <<>>

\* the bounds every operation stays within; the Scopes that live components
\* have yet to create are counted, so that a queued render can always run
InBounds(w) ==
    /\ w.counter + Cardinality({ s \in ScopeIds : w.state[s] # None
                                                  /\ NeedsChild(w.state[s][1]) })
           <= MaxScopes
    /\ Len(w.queue) <= MaxQueue
    /\ \A i \in SuspIds : Len(w.listeners[i]) <= MaxListen
    /\ \A s \in ScopeIds : w.installs[s] <= MaxGen

Commit(w, ran) ==
    /\ ~panicked
    /\ InBounds(w)
    /\ dom' = w.dom
    /\ panicked' = w.panicked
    /\ UNCHANGED <<slot, fresh>>
    /\ state' = w.state
    /\ counter' = w.counter
    /\ parentOf' = w.parentOf
    /\ queue' = w.queue
    /\ resumed' = w.resumed
    /\ listeners' = w.listeners
    /\ boundary' = w.boundary
    /\ issued' = issued
    /\ refs' = w.refs
    /\ rx' = w.rx
    /\ out' = w.out
    /\ pc' = w.pc
    /\ prepared_state' = w.prepared_state
    /\ Streamed(w)
    /\ UNCHANGED <<hydratable, capacity, collected, finished, hooks, agency>>
    /\ installs' = w.installs
    /\ teardowns' = w.teardowns
    /\ lastRun' = ran

Allocated == { s \in ScopeIds : s < counter }
Roots == { s \in Allocated : parentOf[s] = NoScope }
Live == { s \in ScopeIds : state[s] # None }

\* the components that can render while s is rendered: s and its children, or
\* the child it creates when it has none
Family(s) ==
    {s} \cup (IF state[s] # None /\ state[s][1].children # <<>>
              THEN Range(state[s][1].children)
              ELSE {counter})

\* The root component of the application is mounted: Scope::new(None), then
\* mount_in_place.
MountRootResult(props, reports) ==
    mount_in_place(Scope_new(World(reports), NoScope), counter, DefaultRef, props)

MountRoot(props, reports) ==
    /\ counter = 0
    /\ Renders(reports, {counter, counter + 1})
    /\ Commit(MountRootResult(props, reports), NoScope)

\* The root component of the application is hydrated: Scope::new(None), then
\* hydrate_in_place.
HydrateRootResult(props, reports) ==
    hydrate_in_place(Scope_new(World(reports), NoScope), counter,
                     SubSeq(dom[Visible], 2, Len(dom[Visible]) - 1), props)

HydrateRoot(props, reports) ==
    /\ counter = 0
    /\ Renders(reports, {counter, counter + 1})
    /\ Commit(HydrateRootResult(props, reports), NoScope)

\* The owner of the root component hands it new props: Scope::reuse.
ReuseResult(s, props, next_sibling, reports) ==
    reuse(Emit(World(reports), <<"reuse", s>>), s, props, next_sibling)

Reuse(s, props, next_sibling, reports) ==
    /\ s \in Roots
    /\ Renders(reports, Family(s))
    /\ Commit(ReuseResult(s, props, next_sibling, reports), NoScope)

\* The owner of the root component destroys it: Scoped::destroy.
DestroyResult(s, parent_to_detach) ==
    Scoped_destroy(Emit(World(NoReports), <<"Scoped_destroy", s>>), s, parent_to_detach)

Destroy(s, parent_to_detach) ==
    /\ s \in Roots
    /\ Commit(DestroyResult(s, parent_to_detach), NoScope)

\* A state setter of a live component asks for a render:
\* AnyScope::schedule_render.
ScheduleRender(s) ==
    /\ s \in Live
    /\ Commit(schedule_render(World(NoReports), s), NoScope)

\* The scheduler runs the closure at the head of the queue of world w.
drain(w) ==
    run_render(Emit([w EXCEPT !.queue = Tail(@)], <<"scheduler", Head(w.queue)>>),
               Head(w.queue))

SchedulerRunResult(reports) == drain(World(reports))

SchedulerRun(reports) ==
    /\ queue # <<>>
    /\ Renders(reports, Family(Head(queue)))
    /\ Commit(SchedulerRunResult(reports), Head(queue))

\* A Suspension resumes: every listener runs and pushes a render of its Scope.
RECURSIVE fire(_, _, _)
fire(w, ls, i) ==
    IF i > Len(ls) THEN w ELSE fire(push(w, ls[i]), ls, i + 1)

\* SuspensionHandle::resume
resume(w, id) ==
    fire([w EXCEPT !.resumed[id] = TRUE, !.listeners[id] = <<>>], w.listeners[id], 1)

ResumeResult(id) == resume(World(NoReports), id)

Resume(id) ==
    /\ id \in issued
    /\ ~resumed[id]
    /\ Commit(ResumeResult(id), NoScope)

\* mount_in_place called again on the root Scope, which exists already.
MountAgainResult(s, props, reports) ==
    mount_in_place(World(reports), s, DefaultRef, props)

MountAgain(s, props, reports) ==
    /\ s \in Roots
    /\ Renders(reports, {s, counter})
    /\ Commit(MountAgainResult(s, props, reports), NoScope)

Next ==
    \/ \E p \in PropsUniverse, r \in Reports : MountRoot(p, r)
    \/ \E p \in PropsUniverse, r \in Reports : HydrateRoot(p, r)
    \/ \E s \in ScopeIds, p \in PropsUniverse, n \in NodeRefs, r \in Reports :
           Reuse(s, p, n, r)
    \/ \E s \in ScopeIds, b \in BOOLEAN : Destroy(s, b)
    \/ \E s \in ScopeIds : ScheduleRender(s)
    \/ \E r \in Reports : SchedulerRun(r)
    \/ \E id \in SuspIds : Resume(id)

Spec == Init /\ [][Next]_vars

\* Any sequence of calls, mount_in_place on an existing Scope included.
NextApi ==
    \/ Next
    \/ \E s \in ScopeIds, p \in PropsUniverse, r \in Reports : MountAgain(s, p, r)

SpecApi == Init /\ [][NextApi]_vars

\* A root component that renders no child and waits on any of the Suspensions.
Childless == { p \in PropsUniverse : ~p.kid }

NextTwo ==
    \/ \E p \in Childless, r \in Reports : MountRoot(p, r)
    \/ \E p \in Childless, r \in Reports : HydrateRoot(p, r)
    \/ \E s \in ScopeIds, p \in Childless, n \in NodeRefs, r \in Reports :
           Reuse(s, p, n, r)
    \/ \E s \in ScopeIds, b \in BOOLEAN : Destroy(s, b)
    \/ \E s \in ScopeIds : ScheduleRender(s)
    \/ \E r \in Reports : SchedulerRun(r)
    \/ \E id \in SuspIds : Resume(id)

SpecTwo == InitTwo /\ [][NextTwo]_vars

\* The fallbacks a VSuspense handed to apply can have: none, one made by
\* VSuspense::new, or the fragment of a hydrated VSuspense that was cloned.
Fallbacks ==
    {None} \cup { Some(Render(Leaf(tag))) : tag \in Tags }
           \cup { Some(Hydration(ServerNodes(page))) : page \in Pages }

NewSuspense(children, fallback, detached_parent) ==
    [VSuspense_new(Leaf(children), None, detached_parent) EXCEPT !.fallback = fallback]

\* the document and the slot are left as the call left them
Settle(d, v) ==
    /\ d.fresh <= MaxNodes + 1
    /\ dom' = d.dom
    /\ fresh' = d.fresh
    /\ panicked' = d.panicked
    /\ slot' = IF d.panicked THEN slot ELSE v
    /\ UNCHANGED <<lifecycle, renderer, hooks, agency>>

\* the nodes of the visible parent between its first and its last node
Cursor == SubSeq(dom[Visible], 2, Len(dom[Visible]) - 1)

Hydratable == Open \in Range(dom[Visible])

\* A VSuspense is reconciled with what the slot holds: VSuspense::apply.
ApplySuspenseResult(children, fallback, detached_parent) ==
    VSuspense_apply(Document, NewSuspense(children, fallback, detached_parent),
                    Visible, Some(Anchor), slot)

ApplySuspense(children, fallback, detached_parent) ==
    /\ ~panicked
    /\ ~Hydratable
    /\ With(ApplySuspenseResult(children, fallback, detached_parent),
            LAMBDA r : Settle(r.d, Some(r.v)))

\* An element is reconciled with what the slot holds.
ApplyNodeResult(tag) == VNode_apply(Document, Leaf(tag), Visible, Some(Anchor), slot)

ApplyNode(tag) ==
    /\ ~panicked
    /\ ~Hydratable
    /\ With(ApplyNodeResult(tag), LAMBDA r : Settle(r.d, Some(r.v)))

\* The VSuspense of a page the server sent is hydrated: VSuspense::hydrate.
HydrateSuspenseResult(children, detached_parent) ==
    VSuspense_hydrate(Document, NewSuspense(children, None, detached_parent),
                      Visible, Cursor)

HydrateSuspense(children, detached_parent) ==
    /\ ~panicked
    /\ Hydratable
    /\ slot = None
    /\ With(HydrateSuspenseResult(children, detached_parent),
            LAMBDA r : Settle(r.d, Some(r.v)))

\* What the slot holds is detached.
DetachSlotResult == detach(Document, slot[1], Visible, FALSE)

DetachSlot ==
    /\ ~panicked
    /\ slot # None
    /\ Settle(DetachSlotResult, None)

NextSuspense ==
    \/ \E c \in Tags, f \in Fallbacks, p \in DetachedParents : ApplySuspense(c, f, p)
    \/ \E tag \in Tags : ApplyNode(tag)
    \/ \E c \in Tags, p \in DetachedParents : HydrateSuspense(c, p)
    \/ DetachSlot

SpecSuspense == InitSuspense /\ [][NextSuspense]_vars

\* what the server sent after the nodes of the root component
Extras == { <<>>, <<Text>>, <<"p">>, <<Text, "p">> }

\* a page the server rendered the root component into
Littered(extras) ==
    /\ slot = None
    /\ dom = [q \in Parents |->
                 IF q = Visible THEN <<Lead>> \o ServerNodes(extras) \o <<Anchor>> ELSE <<>>]
    /\ fresh = Len(extras) + 1
    /\ panicked = FALSE

\* A page the server sent is hydrated: as the root component, which is then
\* used as any component is, or as a Suspense boundary.
InitHydration ==
    /\ Constructed
    /\ issued = {1}
    /\ \/ \E extras \in Extras : Littered(extras)
       \/ \E page \in Pages : Served(page)

NextHydration ==
    \/ \E p \in PropsUniverse, r \in Reports : HydrateRoot(p, r)
    \/ \E s \in ScopeIds, p \in PropsUniverse, n \in NodeRefs, r \in Reports :
           Reuse(s, p, n, r)
    \/ \E s \in ScopeIds, b \in BOOLEAN : Destroy(s, b)
    \/ \E s \in ScopeIds : ScheduleRender(s)
    \/ \E r \in Reports : SchedulerRun(r)
    \/ \E id \in SuspIds : Resume(id)
    \/ \E c \in Tags, p \in DetachedParents : HydrateSuspense(c, p)

SpecHydration == InitHydration /\ [][NextHydration]_vars

\* the nodes a NodeRef handed in as next_sibling can point at
Siblings == {None, Some(Anchor)}

\* The owner of the root component moves it: Scoped::shift_node.
ShiftNodeResult(s, parent, next_sibling) ==
    shift_node(World(NoReports), s, parent, next_sibling)

ShiftNode(s, parent, next_sibling) ==
    /\ s \in Roots
    /\ Commit(ShiftNodeResult(s, parent, next_sibling), NoScope)

\* The owner of a NodeRef it handed in as next_sibling points it at another
\* node: NodeRef::set.
SetSibling(node_ref, node) ==
    /\ refs[node_ref] # node
    /\ Commit(NodeRef_set(World(NoReports), node_ref, node), NoScope)

\* a page the client renders into, or one the server rendered the root
\* component into
InitShift ==
    /\ Constructed
    /\ issued = {1}
    /\ Blank \/ \E extras \in Extras : Littered(extras)

\* A root component that is mounted or hydrated, handed new props, moved and
\* destroyed by its owner, while the owner re-points the NodeRefs it handed in.
NextShift ==
    \/ \E p \in PropsUniverse, r \in Reports : MountRoot(p, r)
    \/ \E p \in PropsUniverse, r \in Reports : HydrateRoot(p, r)
    \/ \E s \in ScopeIds, p \in PropsUniverse, n \in NodeRefs, r \in Reports :
           Reuse(s, p, n, r)
    \/ \E s \in ScopeIds, b \in BOOLEAN : Destroy(s, b)
    \/ \E s \in ScopeIds, q \in Parents, n \in NodeRefs : ShiftNode(s, q, n)
    \/ \E n \in NodeRefs, node \in Siblings : SetSibling(n, node)

SpecShift == InitShift /\ [][NextShift]_vars

\* what the server sent for the root component: its nodes, with or without
\* the state of the component, and with other script elements
Scripts ==
    { <<>>, <<StateScript>>, <<OtherScript>>, <<Text, StateScript>>,
      <<StateScript, "p">>, <<OtherScript, StateScript>> }

InitPrepared ==
    /\ Constructed
    /\ issued = {1}
    /\ \E nodes \in Scripts : Littered(nodes)

\* A page the server sent, with the state it prepared, is hydrated as the
\* root component, which is then used as any component is.
NextPrepared ==
    \/ \E p \in PropsUniverse, r \in Reports : HydrateRoot(p, r)
    \/ \E s \in ScopeIds, p \in PropsUniverse, n \in NodeRefs, r \in Reports :
           Reuse(s, p, n, r)
    \/ \E s \in ScopeIds, b \in BOOLEAN : Destroy(s, b)
    \/ \E s \in ScopeIds : ScheduleRender(s)
    \/ \E r \in Reports : SchedulerRun(r)
    \/ \E id \in SuspIds : Resume(id)

SpecPrepared == InitPrepared /\ [][NextPrepared]_vars

-----------------------------------------------------------------------------
\* The use_ref hook and its handle.

\* the values the cell of the hook holds
MaxVal == 1
Values == 0 .. MaxVal

\* the accessors of UseRefHandle, and those that hand out &mut T
Accessors == {"with", "try_with", "with_mut", "try_with_mut"}
Mutable == {"with_mut", "try_with_mut"}

\* Result::Ok and Result::Err
Ok(v) == <<"Ok", v>>
Err == <<"Err">>

\* the closures that call no accessor: one that is handed &mut T writes a
\* value or writes nothing, one that is handed &T can only read
Leaves(op) ==
    { [writes |-> x, then |-> None] :
        x \in IF op \in Mutable THEN {None} \cup { Some(v) : v \in Values } ELSE {None} }

\* the closures handed to an accessor: what they write, then the accessor of
\* the same handle they call, if any
Closures(op) ==
    Leaves(op)
    \cup { [writes |-> l.writes, then |-> Some(c)] :
             l \in Leaves(op),
             c \in UNION { { [op |-> o, f |-> g] : g \in Leaves(o) } : o \in Accessors } }

\* the calls of an accessor with a closure
Calls == UNION { { [op |-> o, f |-> g] : g \in Closures(o) } : o \in Accessors }

\* RefCell::new
RefCell_new(v) == [value |-> v, borrow |-> 0]

\* the handle and what it depends on: the cell, the flag of the scheduler and
\* the build
Hook ==
    [ inner |-> inner, IS_RENDERING |-> FALSE,
      debug_assertions |-> debug_assertions, log |-> <<>>, aborted |-> aborted ]

\* the scheduler sets IS_RENDERING while it renders a component, and only then
scheduled(h, is_rendering) ==
    [h EXCEPT !.IS_RENDERING = is_rendering,
              !.log = IF is_rendering THEN << <<"render">> >> ELSE <<>>]

Logged(h, e) == [h EXCEPT !.log = Append(@, e)]

\* panic!, and borrow() and borrow_mut() of a cell that cannot be borrowed
aborting(h, op, f) == [Logged(h, <<"panic", op, f>>) EXCEPT !.aborted = TRUE]

RECURSIVE UseRefHandle_access(_, _, _)

\* f(&*val), f(&mut *val): the closure runs on the value
call(h, f) ==
    With(Logged(IF f.writes = None THEN h
                ELSE [h EXCEPT !.inner[1].value = f.writes[1]],
                <<"ran", f>>),
         LAMBDA h1 :
            IF f.then = None THEN h1
            ELSE UseRefHandle_access(h1, f.then[1].op, f.then[1].f))

\* the accessor hands on what the closure returned, the value it left, and
\* drops the borrow it held
returned(h, op, f, borrow) ==
    IF h.aborted THEN h
    ELSE Logged([h EXCEPT !.inner[1].borrow = borrow],
                <<"ret", op, f,
                  IF op \in {"try_with", "try_with_mut"}
                  THEN Ok(h.inner[1].value) ELSE h.inner[1].value,
                  h.inner[1].value>>)

\* UseRefHandle::with
UseRefHandle_with(h, f) ==
    IF h.inner[1].borrow < 0 THEN aborting(h, "with", f)
    ELSE returned(call([h EXCEPT !.inner[1].borrow = @ + 1], f),
                  "with", f, h.inner[1].borrow)

\* UseRefHandle::try_with
UseRefHandle_try_with(h, f) ==
    IF h.inner[1].borrow < 0
    THEN Logged(h, <<"ret", "try_with", f, Err, h.inner[1].value>>)
    ELSE returned(call([h EXCEPT !.inner[1].borrow = @ + 1], f),
                  "try_with", f, h.inner[1].borrow)

\* a with_mut that does not look at IS_RENDERING
UseRefHandle_with_mut_unguarded(h, f) ==
    IF h.inner[1].borrow # 0 THEN aborting(h, "with_mut", f)
    ELSE returned(call([h EXCEPT !.inner[1].borrow = -1], f), "with_mut", f, 0)

\* UseRefHandle::with_mut
UseRefHandle_with_mut(h, f) ==
    IF h.debug_assertions /\ h.IS_RENDERING THEN aborting(h, "with_mut", f)
    ELSE IF h.inner[1].borrow # 0 THEN aborting(h, "with_mut", f)
    ELSE returned(call([h EXCEPT !.inner[1].borrow = -1], f), "with_mut", f, 0)

\* a try_with_mut that runs the closure on a cell that is borrowed
UseRefHandle_try_with_mut_forced(h, f) ==
    IF h.debug_assertions /\ h.IS_RENDERING THEN aborting(h, "try_with_mut", f)
    ELSE returned(call([h EXCEPT !.inner[1].borrow = -1], f),
                  "try_with_mut", f, h.inner[1].borrow)

\* UseRefHandle::try_with_mut
UseRefHandle_try_with_mut(h, f) ==
    IF h.debug_assertions /\ h.IS_RENDERING THEN aborting(h, "try_with_mut", f)
    ELSE IF h.inner[1].borrow # 0
    THEN Logged(h, <<"ret", "try_with_mut", f, Err, h.inner[1].value>>)
    ELSE returned(call([h EXCEPT !.inner[1].borrow = -1], f), "try_with_mut", f, 0)

\* a call of an accessor of the handle
UseRefHandle_access(h, op, f) ==
    IF h.aborted THEN h
    ELSE With(Logged(h, <<"call", op, f, h.inner[1].value>>),
              LAMBDA h0 :
                 CASE op = "with" -> UseRefHandle_with(h0, f)
                   [] op = "try_with" -> UseRefHandle_try_with(h0, f)
                   [] op = "with_mut" -> UseRefHandle_with_mut(h0, f)
                   [] op = "try_with_mut" -> UseRefHandle_try_with_mut(h0, f))

\* use_memo(f, ()): the first render of the component calls f and keeps what
\* it returned, every later render is handed what was kept
use_memo(h, initial_value) ==
    IF h.inner = None
    THEN Logged([h EXCEPT !.inner = Some(RefCell_new(initial_value))],
                <<"init", initial_value>>)
    ELSE h

\* a use_ref that makes a new cell in every render
use_ref_fresh(h, initial_value) ==
    Logged([h EXCEPT !.inner = Some(RefCell_new(initial_value))],
           <<"init", initial_value>>)

\* use_ref
use_ref(h, initial_value) == use_memo(h, initial_value)

\* the view function of the component: it calls the hook and then an accessor
\* of the handle, while the scheduler has IS_RENDERING set
view(h, initial_value, body) ==
    UseRefHandle_access(use_ref(scheduled(h, TRUE), initial_value), body.op, body.f)

\* an effect or an event listener calls an accessor of the handle
effect(h, body) == UseRefHandle_access(scheduled(h, FALSE), body.op, body.f)

RenderRefResult(initial_value, body) == view(Hook, initial_value, body)

AccessRefResult(body) == effect(Hook, body)

CommitRef(h) ==
    /\ inner' = h.inner
    /\ accessed' = h.log
    /\ aborted' = h.aborted
    /\ UNCHANGED <<debug_assertions, lifecycle, document, renderer, agency>>

RenderRef(initial_value, body) ==
    /\ ~aborted
    /\ CommitRef(RenderRefResult(initial_value, body))

AccessRef(body) ==
    /\ ~aborted
    /\ inner # None
    /\ CommitRef(AccessRefResult(body))

\* a component that uses the hook, in a build with or without debug assertions
InitRef ==
    /\ Started /\ issued = {1} /\ Blank
    /\ Unhooked /\ debug_assertions \in BOOLEAN
    /\ Unprovided

NextRef ==
    \/ \E v \in Values, c \in Calls : RenderRef(v, c)
    \/ \E c \in Calls : AccessRef(c)

SpecRef == InitRef /\ [][NextRef]_vars

-----------------------------------------------------------------------------
\* The WorkerProvider and the bridges it creates.

\* how many WorkerProviderStates are created, and how many bridges handed out
MaxCtr == 3
MaxBridges == 3

\* Reach
Reaches == {"Public", "Private"}

\* the paths of the agents
Paths == {"a.js", "b.js"}

\* WorkerProviderProps, without the children
ProviderProps == [path : Paths, reach : Reaches, lazy : BOOLEAN]

\* the provider, its states and what they spawned and handed out
Agency ==
    [ CTR |-> CTR, memo |-> memo, providers |-> providers,
      agents |-> agents, bridges |-> bridges ]

\* Spawnable::spawn: a new agent at the path; the agent is the bridge to it.
\* by and at tell which state spawned it and for which bridge (0: for none,
\* when the state was created)
spawn(g, path, encoding, callback, by, at) ==
    [g EXCEPT !.agents = Append(@, [path |-> path, encoding |-> encoding,
                                    callback |-> callback, by |-> by, at |-> at])]

\* WorkerBridge::fork of the bridge held by a state, handed out
fork(g, ctr, m) ==
    [g EXCEPT !.bridges = Append(@, [of |-> ctr, agent |-> m, fork |-> TRUE])]

\* a create_bridge that does not keep the bridge of the agent it spawned
create_bridge_unheld(g, ctr) ==
    With(g.providers[ctr + 1], LAMBDA self :
        IF self.reach = "Public"
        THEN IF self.held_bridge # None
             THEN fork(g, ctr, self.held_bridge[1])
             ELSE With(spawn(g, self.path, "default", FALSE, ctr, Len(g.bridges) + 1),
                       LAMBDA g1 : fork(g1, ctr, Len(g1.agents)))
        ELSE With(spawn(g, self.path, "default", TRUE, ctr, Len(g.bridges) + 1),
                  LAMBDA g1 :
                     [g1 EXCEPT !.bridges =
                         Append(@, [of |-> ctr, agent |-> Len(g1.agents),
                                    fork |-> FALSE])]))

\* WorkerProviderState::create_bridge
create_bridge(g, ctr) ==
    With(g.providers[ctr + 1], LAMBDA self :
        IF self.reach = "Public"
        THEN IF self.held_bridge # None
             THEN fork(g, ctr, self.held_bridge[1])
             ELSE With(spawn(g, self.path, "default", FALSE, ctr, Len(g.bridges) + 1),
                       LAMBDA g1 :
                          [fork(g1, ctr, Len(g1.agents)) EXCEPT
                              !.providers[ctr + 1].held_bridge = Some(Len(g1.agents))])
        ELSE With(spawn(g, self.path, "default", TRUE, ctr, Len(g.bridges) + 1),
                  LAMBDA g1 :
                     [g1 EXCEPT !.bridges =
                         Append(@, [of |-> ctr, agent |-> Len(g1.agents),
                                    fork |-> FALSE])]))

\* the closure of the use_memo of the provider: a new WorkerProviderState
WorkerProviderState_new(g, props) ==
    With(IF props.reach = "Public" /\ ~props.lazy
         THEN spawn(g, props.path, "CODEC", FALSE, g.CTR, 0)
         ELSE g,
         LAMBDA g1 :
            [g1 EXCEPT
                !.CTR = @ + 1,
                !.providers =
                    Append(@, [ctr |-> g.CTR, path |-> props.path,
                               lazy |-> props.lazy, reach |-> props.reach,
                               held_bridge |->
                                   IF props.reach = "Public" /\ ~props.lazy
                                   THEN Some(Len(g1.agents)) ELSE None]),
                !.memo = Some([deps |-> <<props.path, props.lazy, props.reach>>,
                               ctr |-> g.CTR])])

\* WorkerProvider: use_memo calls its closure in the first render and when the
\* dependencies are not those of the render before
WorkerProvider(g, props) ==
    IF g.memo # None /\ g.memo[1].deps = <<props.path, props.lazy, props.reach>>
    THEN g
    ELSE WorkerProviderState_new(g, props)

CommitAgency(g) ==
    /\ CTR' = g.CTR
    /\ memo' = g.memo
    /\ providers' = g.providers
    /\ agents' = g.agents
    /\ bridges' = g.bridges
    /\ UNCHANGED <<lifecycle, document, renderer, hooks, bridging>>

\* the provider is rendered with props
RenderProvider(props) ==
    /\ \/ memo # None /\ memo[1].deps = <<props.path, props.lazy, props.reach>>
       \/ CTR < MaxCtr
    /\ CommitAgency(WorkerProvider(Agency, props))

\* a hook asks a state it was handed, or a clone of it, for a bridge
CreateBridge(ctr) ==
    /\ ctr < CTR
    /\ Len(bridges) < MaxBridges
    /\ CommitAgency(create_bridge(Agency, ctr))

InitAgency == Constructed /\ issued = {1} /\ Blank

NextAgency ==
    \/ \E props \in ProviderProps : RenderProvider(props)
    \/ \E ctr \in 0 .. MaxCtr - 1 : CreateBridge(ctr)

SpecAgency == InitAgency /\ [][NextAgency]_vars

-----------------------------------------------------------------------------
\* The use_bridge hook.

\* how many times the component is rendered, and how many outputs the worker sends
MaxPasses == 3
MaxOutputs == 3

\* the outputs of the worker
Outputs == {"x", "y"}

\* the hook and its history
Bridging ==
    [ handle |-> handle, passes |-> passes, bridged |-> bridged,
      delivered |-> delivered ]

\* the closure of the use_memo of use_bridge: a handle with an empty on_output
\* and the bridge T::bridge made for the closure that reads on_output
UseBridgeHandle_new(b) ==
    [b EXCEPT !.bridged = @ + 1,
              !.handle = Some([on_output |-> None, inner |-> b.bridged + 1])]

\* a use_bridge that keeps the callback of the first render
use_bridge_first(b, on_output) ==
    IF b.handle = None
    THEN [UseBridgeHandle_new(b) EXCEPT !.handle[1].on_output = Some(on_output)]
    ELSE b

\* use_bridge: use_memo(.., ()) calls its closure in the first render only;
\* the callback is stored in every render
use_bridge(b, on_output) ==
    [(IF b.handle = None THEN UseBridgeHandle_new(b) ELSE b)
        EXCEPT !.handle[1].on_output = Some(on_output)]

\* the closure handed to T::bridge: the output goes to the callback on_output
\* holds, if it holds one
bridge_output(b, output) ==
    IF b.handle[1].on_output # None
    THEN [b EXCEPT !.delivered =
             Append(@, [output |-> output, to |-> b.handle[1].on_output[1],
                        after |-> b.passes])]
    ELSE b

CommitBridging(b) ==
    /\ handle' = b.handle
    /\ passes' = b.passes
    /\ bridged' = b.bridged
    /\ delivered' = b.delivered
    /\ UNCHANGED <<lifecycle, document, renderer, hooks,
                   CTR, memo, providers, agents, bridges>>

\* the component is rendered: this render passes the callback it made
UseBridge ==
    /\ passes < MaxPasses
    /\ CommitBridging(use_bridge([Bridging EXCEPT !.passes = @ + 1], passes + 1))

\* the worker sends an output over the bridge
Output(output) ==
    /\ handle # None
    /\ Len(delivered) < MaxOutputs
    /\ CommitBridging(bridge_output(Bridging, output))

NextBridging ==
    \/ UseBridge
    \/ \E output \in Outputs : Output(output)

SpecBridging == InitAgency /\ [][NextBridging]_vars

----------------------------------------------------------------------------
\* The writer on its own: a renderer is given a capacity, render_stream
\* creates its BufWriter, strings of any size are written, the writer is
\* dropped, and render_to_string receives the chunks until the stream ends.

MaxCap == 3
MaxPart == 4
MaxParts == 4

Capacities == 0..MaxCap
PartSizes == 0..MaxPart

\* a string of n characters handed to BufWriter::write
Part(n) == Token("part", n)

CommitWriter ==
    UNCHANGED <<state, counter, parentOf, queue, resumed, listeners, boundary, issued,
                refs, rx, pc, prepared_state, installs, teardowns, lastRun,
                document, hydratable, hooks, agency>>

\* LocalServerRenderer::capacity
Capacity(c) ==
    /\ counter = 0
    /\ writer = None
    /\ ~closed
    /\ c # capacity
    /\ capacity' = c
    /\ UNCHANGED <<out, writer, tx, closed, collected, finished>>
    /\ CommitWriter

\* BufWriter::with_capacity(self.capacity) of render_stream
WithCapacity ==
    /\ counter = 0
    /\ writer = None
    /\ ~closed
    /\ writer' = Some([buf |-> String_with_capacity(capacity), capacity |-> capacity])
    /\ UNCHANGED <<out, capacity, tx, closed, collected, finished>>
    /\ CommitWriter

\* BufWriter::write of a string of n characters
WriteStr(n) ==
    /\ counter = 0
    /\ writer # None
    /\ Len(out) < MaxParts
    /\ With(BufWriter_write([buf |-> writer[1].buf, tx |-> tx,
                             capacity |-> writer[1].capacity],
                            Str(Len(out) + 1, Part(n))),
            LAMBDA self :
                /\ writer' = Some([buf |-> self.buf, capacity |-> self.capacity])
                /\ tx' = self.tx)
    /\ out' = Append(out, Part(n))
    /\ UNCHANGED <<capacity, closed, collected, finished>>
    /\ CommitWriter

\* the task of render_stream ends and its BufWriter is dropped
DropWriter ==
    /\ counter = 0
    /\ writer # None
    /\ tx' = BufWriter_drop([buf |-> writer[1].buf, tx |-> tx,
                             capacity |-> writer[1].capacity]).tx
    /\ writer' = None
    /\ closed' = TRUE
    /\ UNCHANGED <<out, capacity, collected, finished>>
    /\ CommitWriter

CommitStream ==
    UNCHANGED <<lifecycle, document, hydratable, capacity, writer, closed, hooks, agency>>

\* render_to_string: s.next().await yields a chunk, which is pushed
Receive ==
    /\ tx # <<>>
    /\ ~finished
    /\ collected' = collected \o Head(tx)
    /\ tx' = Tail(tx)
    /\ UNCHANGED finished
    /\ CommitStream

\* render_to_string: s.next().await yields None, and render returns
Return ==
    /\ tx = <<>>
    /\ closed
    /\ ~finished
    /\ finished' = TRUE
    /\ UNCHANGED <<tx, collected>>
    /\ CommitStream

NextWriter ==
    \/ \E c \in Capacities : Capacity(c)
    \/ WithCapacity
    \/ \E n \in PartSizes : WriteStr(n)
    \/ DropWriter
    \/ Receive
    \/ Return

SpecWriter == InitAgency /\ [][NextWriter]_vars

\* the root components the server renders: an element, or a Suspense boundary
\* around one or two child components that render an element each
Apps ==
    { [val |-> "x", kid |-> FALSE], [val |-> "x", kid |-> TRUE],
      [val |-> "x", kid |-> TRUE, n |-> 2] }

\* what prepare_state of each component returns: whether it has a state to
\* hand to the client
Prepared == [ScopeIds -> BOOLEAN]

\* LocalServerRenderer::hydratable
SetHydratable(val) ==
    /\ counter = 0
    /\ val # hydratable
    /\ hydratable' = val
    /\ UNCHANGED <<lifecycle, document, streaming, hooks, agency>>

\* LocalServerRenderer::render_stream: the root Scope is created and its
\* render_into_stream runs up to the first await that is pending.
RenderStreamResult(props, reports, prepared) ==
    render_into_stream(Scope_new(World(reports), NoScope), counter, props,
                       hydratable, prepared)

RenderStream(props, reports, prepared) ==
    /\ counter = 0
    /\ Renders(reports, ScopeIds)
    /\ Commit(RenderStreamResult(props, reports, prepared), NoScope)

\* the Scope whose first layout the task of the root Scope is waiting for
RECURSIVE Awaited(_)
Awaited(s) == IF pc[s].at = "child" THEN Awaited(pc[s].child) ELSE s

\* The layout the task is waiting for was sent and the task is polled.
PollResult(reports, prepared) == poll(World(reports), 0, hydratable, prepared)

Poll(reports, prepared) ==
    /\ pc[0].at \in {"rx", "child"}
    /\ rx[Awaited(0)] # None
    /\ Renders(reports, ScopeIds \ Allocated)
    /\ Commit(PollResult(reports, prepared), NoScope)

\* One page is rendered by the server; the components wait on Suspensions
\* that resume in any order.
NextSsr ==
    \/ \E val \in BOOLEAN : SetHydratable(val)
    \/ \E p \in Apps, r \in Reports, s \in Prepared : RenderStream(p, r, s)
    \/ \E r \in Reports, s \in Prepared : Poll(r, s)
    \/ \E r \in Reports : SchedulerRun(r)
    \/ \E id \in SuspIds : Resume(id)

SpecSsr == InitTwo /\ [][NextSsr]_vars

\* LocalServerRenderer::render of one page: the renderer is configured, the
\* tree is rendered into the stream while its Suspensions resume in any
\* order, and render_to_string receives the chunks.
NextRender ==
    \/ \E val \in BOOLEAN : SetHydratable(val)
    \/ \E c \in Capacities : Capacity(c)
    \/ \E p \in Apps, r \in Reports, s \in Prepared : RenderStream(p, r, s)
    \/ \E r \in Reports, s \in Prepared : Poll(r, s)
    \/ \E r \in Reports : SchedulerRun(r)
    \/ \E id \in SuspIds : Resume(id)
    \/ Receive
    \/ Return

SpecRender == InitTwo /\ [][NextRender]_vars

\* the task of render_stream was woken: the layout it waits for was sent
Woken == pc[0].at \in {"rx", "child"} /\ rx[Awaited(0)] # None

\* Poll can poll a task that was woken
TaskPolls ==
    Woken =>
        \E r \in Reports, s \in Prepared :
            /\ Renders(r, ScopeIds \ Allocated)
            /\ ~panicked
            /\ InBounds(PollResult(r, s))
            /\ PollResult(r, s).pc # pc

\* Every Suspension resumes, the scheduler runs what is queued, and
\* render_to_string takes what the stream yields.  The executor polls a task
\* that was woken: by TaskPolls the Poll step is enabled exactly when the task
\* is woken, so a task that is polled does not stay woken for ever.
FairRender ==
    /\ \A id \in SuspIds : WF_vars(Resume(id))
    /\ WF_vars(\E r \in Reports : SchedulerRun(r))
    /\ WF_vars(Receive)
    /\ WF_vars(Return)
    /\ []<>(~Woken)

LiveRender == SpecRender /\ FairRender

\* The scheduler takes the closure at the head of its queue.  Within Next this
\* is the SchedulerRun step: no other operation shortens the queue, and a
\* render pushes nothing.
Drained == queue # <<>> /\ queue' = Tail(queue)

\* SchedulerRun can take the head of a queue that is not empty
QueueDrains ==
    queue # <<>> =>
        \E r \in Reports :
            Renders(r, Family(Head(queue))) /\ InBounds(SchedulerRunResult(r))

\* The scheduler keeps draining its queue.
LiveSpec == Spec /\ WF_queue(Drained)

----------------------------------------------------------------------------
\* What the operations enabled in the current state do.

Has(tr, tag, s) == \E i \in 1 .. Len(tr) : tr[i][1] = tag /\ tr[i][2] = s

\* the position of the first event of that kind in a trace, 0 if there is none
Pos(tr, tag, s) ==
    IF Has(tr, tag, s)
    THEN CHOOSE i \in 1 .. Len(tr) :
             /\ tr[i][1] = tag /\ tr[i][2] = s
             /\ \A j \in 1 .. (i - 1) : ~(tr[j][1] = tag /\ tr[j][2] = s)
    ELSE 0

\* the world without the record of the calls made
Effect(w) == [w EXCEPT !.trace = <<>>, !.hook = NoReports]

----------------------------------------------------------------------------
C2_NoOpAfterDestroy ==
    \A s \in ScopeIds :
        teardowns[s] > 0 =>
            \A r \in Reports :
                /\ run_render(World(r), s) = World(r)
                /\ \A p \in {None} \cup {Some(x) : x \in PropsUniverse},
                      n \in {None} \cup {Some(x) : x \in NodeRefs} :
                       /\ Effect(run_update_props(World(r), s, p, n)) = Effect(World(r))
                       /\ ~Has(run_update_props(World(r), s, p, n).trace, "changed", s)
                /\ (queue # <<>> /\ Head(queue) = s) =>
                       /\ Effect(SchedulerRunResult(r)) =
                              [Effect(World(r)) EXCEPT !.queue = Tail(queue)]
                       /\ ~Has(SchedulerRunResult(r).trace, "view", s)

\* the scheduler has just run a queued render of a destroyed Scope
C2_Witness ==
    /\ lastRun # NoScope
    /\ teardowns[lastRun] > 0

\* The outcome of every lifecycle operation the program can perform in the
\* current state; its trace lists the calls the operation made, in order.
Outcomes ==
    { w \in
        { MountRootResult(a[1], a[2]) :
            a \in { a \in PropsUniverse \X Reports :
                      counter = 0 /\ Renders(a[2], {counter, counter + 1}) } }
        \cup
        { HydrateRootResult(a[1], a[2]) :
            a \in { a \in PropsUniverse \X Reports :
                      counter = 0 /\ Renders(a[2], {counter, counter + 1}) } }
        \cup
        { ReuseResult(a[1], a[2], a[3], a[4]) :
            a \in { a \in Roots \X PropsUniverse \X NodeRefs \X Reports :
                      Renders(a[4], Family(a[1])) } }
        \cup
        { DestroyResult(a[1], a[2]) : a \in Roots \X BOOLEAN }
        \cup
        { SchedulerRunResult(r) :
            r \in { r \in Reports : queue # <<>> /\ Renders(r, Family(Head(queue))) } }
      : ~panicked /\ InBounds(w) }

Traces == { w.trace : w \in Outcomes }

\* the call at position i of the trace is a render of s
ViewAt(tr, i, s) == i <= Len(tr) /\ tr[i][1] = "view" /\ tr[i][2] = s

\* the calls of changed in a trace: [at, s, props, next_sibling, st]
ChangedCalls(tr) ==
    { [at |-> i, s |-> tr[i][2], props |-> tr[i][3], next_sibling |-> tr[i][4],
       st |-> tr[i][5]] : i \in { i \in 1 .. Len(tr) : tr[i][1] = "changed" } }

----------------------------------------------------------------------------
\* C3: changed(Some(new_props), _) renders only when the new props differ from
\* the current ones: with equal props no render follows, for a component
\* created by a fresh mount and for one created by hydration.
C3_RendersOnlyWhenPropsDiffer ==
    \A tr \in Traces :
        \A c \in ChangedCalls(tr) :
            (c.props # None /\ c.props[1] = c.st.props) => ~ViewAt(tr, c.at + 1, c.s)

\* C4: changed(props, Some(next_sibling)) with a next_sibling that differs from
\* the one the component holds renders, also when the props are absent or equal.
C4_RendersWhenSiblingDiffers ==
    \A tr \in Traces :
        \A c \in ChangedCalls(tr) :
            (/\ c.next_sibling # None
             /\ c.next_sibling[1] # c.st.next_sibling
             /\ (c.props = None \/ c.props[1] = c.st.props))
            => ViewAt(tr, c.at + 1, c.s)

\* C5: when a Scope with child components is destroyed, the teardown of every
\* child (component.destroy) runs before the teardown of its parent.
C5_ChildTeardownFirst ==
    \A w \in Outcomes :
        \A i, j \in 1 .. Len(w.trace) :
            (/\ w.trace[i][1] = "destroy"
             /\ w.trace[j][1] = "destroy"
             /\ parentOf[w.trace[j][2]] = w.trace[i][2])
            => j < i

\* the mounts of a trace whose render does not suspend:
\* [at, s], the position of the create call and the Scope
Mounts(tr) ==
    { [at |-> i, s |-> tr[i][2]] :
        i \in { i \in 1 .. Len(tr) :
                  /\ tr[i][1] = "create" /\ tr[i][3] = "Render"
                  /\ ~Has(tr, "suspend", tr[i][2]) } }

\* the positions of the rendered hooks of the children of s in the outcome w
ChildHooks(w, s) ==
    { k \in 1 .. Len(w.trace) :
        /\ w.trace[k][1] = "rendered"
        /\ w.trace[k][2] \in ScopeIds
        /\ w.parentOf[w.trace[k][2]] = s }

\* C6: mounting a component whose render does not suspend calls create, then
\* view, then the rendered hooks of its descendants, then its own rendered
\* hook, within the mount call; no descendant's rendered hook comes after it.
C6_MountOrder ==
    \A w \in Outcomes :
        \A m \in Mounts(w.trace) :
            LET v == Pos(w.trace, "view", m.s)
                r == Pos(w.trace, "rendered", m.s)
            IN  /\ m.at < v /\ v < r
                /\ \A k \in ChildHooks(w, m.s) : v < k /\ k < r

\* the mounted root is about to render and mount a child in that render: the
\* child's create, view and rendered hook run, then the root's rendered hook
C6_Witness ==
    /\ counter > 0
    /\ \E w \in Outcomes :
           \E m \in Mounts(w.trace) :
               /\ w.parentOf[m.s] # NoScope
               /\ m.at < Pos(w.trace, "rendered", m.s)
               /\ Pos(w.trace, "rendered", m.s) < Pos(w.trace, "rendered", w.parentOf[m.s])

\* the state a render of s starts from, for the first render of s in a trace
FirstView(tr, s) == tr[Pos(tr, "view", s)][3]

\* the world an operation leaves, handed to the next operation
Then(w, reports) == [w EXCEPT !.trace = <<>>, !.hook = reports]

\* C7: render requests for one Scope are coalesced: when two requests for the
\* same live Scope are pending in the scheduler, draining them runs view once.
C7_RenderRequestsCoalesced ==
    (/\ Len(queue) >= 2
     /\ queue[1] = queue[2]
     /\ state[queue[1]] # None)
    => \A r1, r2 \in { r \in Reports : Renders(r, Family(queue[1])) } :
           LET w1 == drain(World(r1))
               w2 == drain(Then(w1, r2))
           IN  ~(Has(w1.trace, "view", queue[1]) /\ Has(w2.trace, "view", queue[1]))

\* a live child component with a render at the head of the scheduler's queue
QueuedChildren ==
    { c \in Live : parentOf[c] \in Roots /\ queue # <<>> /\ Head(queue) = c }

\* the outcomes of the re-renders of the parent of c that reuse c
ReusesOf(c) ==
    { w \in { ReuseResult(a[1], a[2], a[3], a[4]) :
                a \in { a \in {parentOf[c]} \X PropsUniverse \X NodeRefs \X Reports :
                          Renders(a[4], Family(a[1])) } } :
        /\ InBounds(w)
        /\ w.state[c] # None
        /\ \E k \in ChangedCalls(w.trace) : k.s = c /\ k.props # None }

\* the props the reconciler handed to c in the outcome w
HandedTo(w, c) ==
    (CHOOSE k \in ChangedCalls(w.trace) : k.s = c /\ k.props # None).props[1]

\* the props the queued render of c is run with after the outcome w
QueuedRenderProps(w, c) == FirstView(drain(Then(w, NoReports)).trace, c).props

\* C8 as stated: when the re-render of a parent reuses a child, the child's
\* props are written at once, and a render of the child that is still queued
\* runs with the new props, never the old ones.
C8_QueuedRenderSeesNewProps ==
    \A c \in QueuedChildren :
        \A w \in ReusesOf(c) : QueuedRenderProps(w, c) = HandedTo(w, c)

\* C8, amended: a render of the child that is still queued runs with the new
\* props, unless the child is being hydrated and has not finished its first
\* render: then the new props are held in pending_props and the queued render
\* runs with the old ones.
C8_QueuedRenderSeesNewPropsUnlessPending ==
    \A c \in QueuedChildren :
        \A w \in ReusesOf(c) :
            \/ QueuedRenderProps(w, c) = HandedTo(w, c)
            \/ /\ w.state[c][1].creation_mode = "Hydration"
               /\ w.state[c][1].rendered = "Fragment"
               /\ w.state[c][1].pending_props = Some(HandedTo(w, c))
               /\ QueuedRenderProps(w, c) = state[c][1].props

\* a child with a queued render is about to be reused with props that differ
\* from its own, and the queued render then runs with the new props
C8_Witness ==
    \E c \in QueuedChildren :
        \E w \in ReusesOf(c) :
            /\ HandedTo(w, c) # state[c][1].props
            /\ QueuedRenderProps(w, c) = HandedTo(w, c)

\* the component of s waits on a Suspension that has resumed
ResumedUnder(s) ==
    /\ state[s] # None
    /\ state[s][1].suspension # 0
    /\ resumed[state[s][1].suspension]

\* C9: a render that reports a Suspension that has not resumed returns; once
\* the Suspension resumes, the scheduler eventually runs a render of the Scope,
\* unless the Scope is destroyed first, as long as the scheduler keeps draining
\* its queue.
C9_ResumedRenderRuns ==
    \A s \in ScopeIds : ResumedUnder(s) ~> (lastRun = s \/ state[s] = None)

\* a suspended component whose Suspension has resumed, its render queued
C9_Witness ==
    \E s \in ScopeIds : ResumedUnder(s) /\ s \in Range(queue)

\* the calls of suspend in a trace: [at, s, suspension, resumed, st]
SuspendCalls(tr) ==
    { [at |-> i, s |-> tr[i][2], suspension |-> tr[i][3], resumed |-> tr[i][4],
       st |-> tr[i][5]] : i \in { i \in 1 .. Len(tr) : tr[i][1] = "suspend" } }

\* C10: when a render reports a Suspension that has already resumed, suspend
\* calls render again at once: it installs no listener, leaves the tracked
\* suspension as it is and does not notify the Suspense boundary.
C10_ResumedSuspensionRendersAgain ==
    \A tr \in Traces :
        \A c \in SuspendCalls(tr) :
            c.resumed => /\ ViewAt(tr, c.at + 1, c.s)
                         /\ tr[c.at + 1][3] = c.st

\* a component that tracks a Suspension is about to render and report it
\* after it has resumed
C10_Witness ==
    \E tr \in Traces :
        \E c \in SuspendCalls(tr) :
            c.resumed /\ c.st.suspension = c.suspension

\* how many times the Scope s is in the list ls
Count(ls, s) == Cardinality({ k \in 1 .. Len(ls) : ls[k] = s })

\* the call at position i of the trace installs a resume listener of s
ListenAt(tr, i, s) == i <= Len(tr) /\ tr[i][1] = "listen" /\ tr[i][2] = s

\* C11: when a render reports the Suspension the component already tracks,
\* suspend installs no second resume listener on it: the Suspension holds one
\* listener of the Scope, so its resumption schedules exactly one render.
C11_NoDuplicateListener ==
    \A w \in Outcomes :
        \A c \in SuspendCalls(w.trace) :
            (~c.resumed /\ c.st.suspension = c.suspension)
            => /\ ~ListenAt(w.trace, c.at + 1, c.s)
               /\ Count(w.listeners[c.suspension], c.s) = 1

\* the call at position i of the trace is that call on the Suspension susp
CallAt(tr, i, tag, susp) == i <= Len(tr) /\ tr[i][1] = tag /\ tr[i][2] = susp

\* the calls of suspend that report a pending Suspension to a component that
\* tracks one
Resuspends(tr) ==
    { c \in SuspendCalls(tr) : ~c.resumed /\ c.st.suspension # 0 }

\* C12: when the render of a suspended component reports a pending Suspension
\* that is not the tracked one, the boundary is told to release the old one
\* before it is told of the new one, and the component then tracks the new
\* one, which the boundary counts while the old one is no longer counted; when
\* the reported Suspension is the tracked one, the boundary is not told to
\* release it.
C12_OldReleasedBeforeNewTracked ==
    \A w \in Outcomes :
        \A c \in Resuspends(w.trace) :
            /\ w.state[c.s] # None => w.state[c.s][1].suspension = c.suspension
            /\ c.suspension \in w.boundary
            /\ IF c.suspension # c.st.suspension
               THEN /\ CallAt(w.trace, c.at + 2, "resume_suspension", c.st.suspension)
                    /\ CallAt(w.trace, c.at + 3, "suspend_suspension", c.suspension)
                    /\ c.st.suspension \notin w.boundary
               ELSE /\ ~CallAt(w.trace, c.at + 2, "resume_suspension", c.suspension)
                    /\ CallAt(w.trace, c.at + 2, "suspend_suspension", c.suspension)

\* a component that tracks a pending Suspension is about to render and report
\* the other one, also pending: the old one is released, the new one tracked
C12_Witness ==
    \E w \in Outcomes :
        \E c \in Resuspends(w.trace) :
            /\ c.suspension # c.st.suspension
            /\ ~resumed[c.st.suspension]
            /\ w.state[c.s] # None
            /\ w.state[c.s][1].suspension = c.suspension
            /\ w.boundary = {c.suspension}

\* C13: after a component has replaced its tracked Suspension S1 by another
\* Suspension S2, the resumption of S1 schedules no render of the component.
C13_NoStaleRender ==
    \A w \in Outcomes :
        \A c \in Resuspends(w.trace) :
            (/\ c.suspension # c.st.suspension
             /\ ~w.resumed[c.st.suspension]
             /\ w.state[c.s] # None)
            => Count(resume(Then(w, NoReports), c.st.suspension).queue, c.s)
                   = Count(w.queue, c.s)

----------------------------------------------------------------------------
\* What VSuspense::apply does to the boundary the slot holds.

\* the program runs and the slot holds a VSuspense
Boundary == ~panicked /\ slot # None /\ slot[1].kind = "suspense"

Active == Boundary /\ slot[1].fallback = None
Suspended == Boundary /\ slot[1].fallback # None
SuspendedBy(kind) == Suspended /\ slot[1].fallback[1].kind = kind

\* the calls of VSuspense::apply the program can make on the boundary the slot
\* holds with a node of the same boundary: the new node and the result
Applies ==
    { a \in { [new |-> NewSuspense(x[1], x[2], slot[1].detached_parent),
               r |-> ApplySuspenseResult(x[1], x[2], slot[1].detached_parent)] :
                 x \in { x \in Tags \X Fallbacks : Boundary } } :
        a.r.d.fresh <= MaxNodes + 1 }

Rendered(a) == a.new.fallback # None /\ a.new.fallback[1].kind = "Render"

\* the events of that kind in a log
Events(log, kind) == { i \in 1 .. Len(log) : log[i][1] = kind }

\* the nodes of an Element between its first and its last node
Inside(seq) == SubSeq(seq, 2, Len(seq) - 1)

\* C14: when apply suspends an active boundary, the children rendered before
\* are first shifted from the visible parent to the detached parent, then
\* reconciled there against their ancestor, and the fallback is then applied
\* in the visible parent at next_sibling with no ancestor; children that are
\* the same element are neither detached nor created again.
C14_SuspendShiftsChildren ==
    Active =>
        \A a \in Applies :
            Rendered(a) =>
                /\ Len(a.r.d.log) >= 3
                /\ a.r.d.log[1] = <<"shift", slot[1].children.node, Visible,
                                    slot[1].detached_parent, None>>
                /\ a.r.d.log[2] = <<"apply", a.new.children.tag, slot[1].detached_parent,
                                    None, Some(slot[1].children)>>
                /\ \E i \in Events(a.r.d.log, "apply") :
                       /\ i > 2
                       /\ a.r.d.log[i] = <<"apply", a.new.fallback[1].root_node.tag,
                                           Visible, Some(Anchor), None>>
                /\ a.r.v.children.node[1] \in Range(a.r.d.dom[slot[1].detached_parent])
                /\ a.r.d.dom[Visible] = <<Lead, a.r.v.fallback[1].root_node.node[1], Anchor>>
                /\ a.new.children.tag = slot[1].children.tag =>
                       /\ a.r.v.children.node = slot[1].children.node
                       /\ Events(a.r.d.log, "detach") = {}
                       /\ Cardinality(Events(a.r.d.log, "create")) = 1

\* an active boundary is about to be suspended with the same children
C14_Witness ==
    /\ Active
    /\ \E a \in Applies :
           /\ Rendered(a)
           /\ a.new.children.tag = slot[1].children.tag
           /\ a.r.v.children.node = slot[1].children.node
           /\ a.r.v.children.node[1] \in Range(a.r.d.dom[slot[1].detached_parent])

\* the nodes of a fallback
FallbackNodes(fallback) ==
    IF fallback.kind = "Render" THEN <<fallback.root_node.node[1]>> ELSE fallback.fragment

\* C15: when apply resumes a suspended boundary, the old fallback is first
\* taken out of the visible parent, the children are then shifted from the
\* detached parent to the visible parent before next_sibling, and are then
\* reconciled there against their ancestor; children that are the same
\* element are not created again.
C15_ResumeShiftsChildrenBack ==
    Suspended =>
        \A a \in Applies :
            a.new.fallback = None =>
                LET k == Len(FallbackNodes(slot[1].fallback[1]))
                IN  /\ Len(a.r.d.log) >= k + 2
                    /\ \A i \in 1 .. k :
                           a.r.d.log[i][1] \in {"detach", "remove_child"}
                    /\ \A n \in Range(FallbackNodes(slot[1].fallback[1])) :
                           n \notin Range(a.r.d.dom[Visible])
                    /\ a.r.d.log[k + 1] = <<"shift", slot[1].children.node,
                                            slot[1].detached_parent, Visible, Some(Anchor)>>
                    /\ a.r.d.log[k + 2] = <<"apply", a.new.children.tag, Visible,
                                            Some(Anchor), Some(slot[1].children)>>
                    /\ a.r.d.dom[Visible] = <<Lead, a.r.v.children.node[1], Anchor>>
                    /\ a.new.children.tag = slot[1].children.tag =>
                           /\ a.r.v.children.node = slot[1].children.node
                           /\ Events(a.r.d.log, "create") = {}

\* a boundary suspended with a rendered fallback is about to be resumed with
\* the same children
C15_Witness ==
    /\ SuspendedBy("Render")
    /\ \E a \in Applies :
           /\ a.new.fallback = None
           /\ a.new.children.tag = slot[1].children.tag
           /\ a.r.d.dom[Visible] = <<Lead, slot[1].children.node[1], Anchor>>

\* the boundary the slot holds is suspended with that fallback, then resumed
RoundTrip(children, fallback, back) ==
    With(VSuspense_apply(Document,
                         NewSuspense(children, Some(Render(Leaf(fallback))),
                                     slot[1].detached_parent),
                         Visible, Some(Anchor), slot),
         LAMBDA r1 :
             [suspended |-> r1,
              resumed |-> VSuspense_apply([r1.d EXCEPT !.log = <<>>],
                                          NewSuspense(back, None, slot[1].detached_parent),
                                          Visible, Some(Anchor), Some(r1.v))])

\* the boundary the slot holds is rendered again and never suspended
NeverSuspended(back) == ApplySuspenseResult(back, None, slot[1].detached_parent)

TagsOf(seq) == [i \in 1 .. Len(seq) |-> seq[i].tag]

\* C16: suspending an active boundary and resuming it leaves the visible
\* parent as rendering it without suspending does: only the children, at the
\* same place; the fallback node is in no parent and the detached parent
\* holds no node it did not hold before.  Children that stay the same element
\* are the node they were.
C16_SuspenseRoundTrip ==
    Active =>
        \A children, fallback, back \in Tags :
            LET t == RoundTrip(children, fallback, back)
                direct == NeverSuspended(back)
                shown == t.suspended.v.fallback[1].root_node.node[1]
            IN  /\ TagsOf(t.resumed.d.dom[Visible]) = TagsOf(direct.d.dom[Visible])
                /\ t.resumed.d.dom[Visible] = <<Lead, t.resumed.v.children.node[1], Anchor>>
                /\ \A q \in Parents : shown \notin Range(t.resumed.d.dom[q])
                /\ t.resumed.v.children.node[1]
                       \notin Range(t.resumed.d.dom[slot[1].detached_parent])
                /\ t.resumed.d.dom[slot[1].detached_parent] = dom[slot[1].detached_parent]
                /\ (children = slot[1].children.tag /\ back = children) =>
                       t.resumed.d.dom[Visible] = dom[Visible]

\* the boundary is suspended, by a suspension of the active boundary that kept
\* its children, and resuming it puts them back with nothing else
C16_Witness ==
    /\ SuspendedBy("Render")
    /\ slot[1].children.node[1].id < slot[1].fallback[1].root_node.node[1].id
    /\ slot[1].children.node[1] \in Range(dom[slot[1].detached_parent])
    /\ \E a \in Applies :
           /\ a.new.fallback = None
           /\ a.r.d.dom[Visible] = <<Lead, slot[1].children.node[1], Anchor>>
           /\ a.r.d.dom[slot[1].detached_parent] = <<>>

\* C17: after every apply or hydrate of a boundary, a suspended boundary has
\* its fallback, and nothing else, in the visible parent and its children
\* under the detached parent; an active boundary has its children, and nothing
\* else, in the visible parent.
C17_OneSubtreeVisible ==
    Boundary =>
        IF slot[1].fallback # None
        THEN /\ Inside(dom[Visible]) = FallbackNodes(slot[1].fallback[1])
             /\ slot[1].children.node[1] \in Range(dom[slot[1].detached_parent])
             /\ slot[1].children.node[1] \notin Range(dom[Visible])
        ELSE /\ Inside(dom[Visible]) = <<slot[1].children.node[1]>>
             /\ slot[1].children.node[1] \notin Range(dom[slot[1].detached_parent])

\* a boundary that stayed suspended while its children were replaced
C17_Witness ==
    /\ SuspendedBy("Render")
    /\ slot[1].children.node[1].id > slot[1].fallback[1].root_node.node[1].id
    /\ Inside(dom[Visible]) = <<slot[1].fallback[1].root_node.node[1]>>

\* the calls of VSuspense::hydrate the program can make on the page: the new
\* node and the result
Hydrates ==
    { h \in { [new |-> NewSuspense(x[1], None, x[2]),
               r |-> HydrateSuspenseResult(x[1], x[2])] :
                 x \in { x \in Tags \X DetachedParents :
                           ~panicked /\ Hydratable /\ slot = None } } :
        h.r.d.fresh <= MaxNodes + 1 }

\* the nodes the server sent between the markers of the boundary
Between == SubSeq(Cursor, Index(Cursor, Open) + 1, Index(Cursor, Close) - 1)

\* C18: a hydrate that returns leaves the boundary suspended, its fallback the
\* fragment of the nodes that were between the markers, which stay in the
\* visible parent; an apply that keeps the boundary suspended carries that
\* fragment over as it is and renders no fallback; the apply that resumes the
\* boundary removes every node of the fragment from the visible parent.
C18_HydrationFragmentFallback ==
    /\ \A h \in Hydrates :
           ~h.r.d.panicked =>
               /\ h.r.v.fallback = Some(Hydration(Between))
               /\ Inside(h.r.d.dom[Visible]) = Between
    /\ SuspendedBy("Hydration") =>
           \A a \in Applies :
               IF a.new.fallback # None
               THEN /\ ~a.r.d.panicked
                    /\ a.r.v.fallback = slot[1].fallback
                    /\ a.r.d.dom[Visible] = dom[Visible]
                    /\ \A i \in Events(a.r.d.log, "apply") : a.r.d.log[i][3] # Visible
               ELSE /\ \A n \in Range(slot[1].fallback[1].fragment) :
                           n \notin Range(a.r.d.dom[Visible])
                    /\ a.r.d.dom[Visible] = <<Lead, a.r.v.children.node[1], Anchor>>

\* a hydrated boundary, still suspended with the nodes the server sent after
\* an apply replaced its children, is about to resume
C18_Witness ==
    /\ SuspendedBy("Hydration")
    /\ slot[1].fallback[1].fragment # <<>>
    /\ Inside(dom[Visible]) = slot[1].fallback[1].fragment
    /\ slot[1].children.node[1].id > Len(slot[1].fallback[1].fragment) + 1
    /\ \E a \in Applies : a.new.fallback = None /\ Inside(a.r.d.dom[Visible]) # <<>>

\* the fallback of the ancestor that apply matches the new fallback with
FallbackAncestor(detached_parent) ==
    IF slot # None /\ slot[1].kind = "suspense"
          /\ slot[1].detached_parent = detached_parent
    THEN slot[1].fallback
    ELSE None

\* the calls of VSuspense::apply with a new node whose fallback is a fragment
\* while the fallback of the ancestor is a rendered one or absent
Mismatches ==
    { x \in Tags \X Fallbacks \X DetachedParents :
        /\ ~panicked
        /\ ~Hydratable
        /\ x[2] # None
        /\ x[2][1].kind = "Hydration"
        /\ \/ FallbackAncestor(x[3]) = None
           \/ FallbackAncestor(x[3])[1].kind = "Render" }

\* C19: apply panics with 'invalid suspense state!' whenever the fallback of
\* the new node is a Hydration fragment and the fallback of the ancestor is a
\* rendered one or absent: the panic is the last thing it does, nothing is
\* rendered and the node is returned as it came.
C19_MismatchPanics ==
    \A x \in Mismatches :
        LET r == ApplySuspenseResult(x[1], x[2], x[3])
        IN  /\ r.d.panicked
            /\ r.d.log # <<>>
            /\ r.d.log[Len(r.d.log)] = <<"panic", "invalid suspense state!">>
            /\ Events(r.d.log, "apply") = {}
            /\ Events(r.d.log, "create") = {}
            /\ r.v = NewSuspense(x[1], x[2], x[3])

\* the program has stopped in an apply of a fragment fallback on a boundary
\* suspended with a rendered fallback
C19_Witness ==
    /\ panicked
    /\ slot # None
    /\ slot[1].kind = "suspense"
    /\ slot[1].fallback # None
    /\ slot[1].fallback[1].kind = "Render"
    /\ Inside(dom[Visible]) = <<slot[1].fallback[1].root_node.node[1]>>

\* the ends of the hydration of a component in a trace: [s, left], the Scope
\* and what was left of its Fragment
Ends(tr) ==
    { [s |-> tr[i][2], left |-> tr[i][3]] :
        i \in { i \in 1 .. Len(tr) : tr[i][1] = "end_of_component" } }

\* the Fragment the component of s holds, or is created with: the nodes of
\* the page for the root, the nodes between its own markers for a child
FragmentOf(s) ==
    IF state[s] # None THEN state[s][1].fragment
    ELSE IF counter = 0 /\ s = counter THEN Inside(dom[Visible]) ELSE <<>>

\* C20: the first commit of a hydrating component makes a Bundle of its
\* Fragment only if the Fragment, after the hydration of the rendered tree and
\* without the text nodes it then starts with, is empty; if a node is left the
\* program panics and the component is not in Bundle state.  VSuspense::hydrate
\* does the same with the clones its children are hydrated from.
C20_HydrationConsumesFragment ==
    /\ \A w \in Outcomes :
           /\ w.panicked <=> \E e \in Ends(w.trace) : e.left # <<>>
           /\ \A e \in Ends(w.trace) :
                  /\ e.left = TrimStart(FragmentOf(e.s))
                  /\ IF e.left = <<>>
                     THEN /\ w.state[e.s] # None
                          /\ w.state[e.s][1].rendered = "Bundle"
                     ELSE /\ w.trace[Len(w.trace)] = <<"end_of_component", e.s, e.left>>
                          /\ w.state[e.s] # None => w.state[e.s][1].rendered = "Fragment"
    /\ \A h \in Hydrates :
           (Between # <<>> /\ Between[1].tag = h.new.children.tag) =>
               IF TrimStart(Tail(Between)) = <<>>
               THEN /\ ~h.r.d.panicked
                    /\ h.r.v.fallback # None
                    /\ h.r.d.dom[h.new.detached_parent] = <<h.r.v.children.node[1]>>
               ELSE /\ h.r.d.panicked
                    /\ h.r.d.log[Len(h.r.d.log)]
                           = <<"panic", "expected end of suspense, found node.">>
                    /\ h.r.v.fallback = None

\* the program has stopped in the first commit of a hydrating component that
\* had suspended: a node is left in its Fragment and it is not a Bundle
C20_Witness ==
    /\ panicked
    /\ \E s \in ScopeIds :
           /\ state[s] # None
           /\ state[s][1].rendered = "Fragment"
           /\ state[s][1].fragment # <<>>
           /\ state[s][1].fragment = TrimStart(state[s][1].fragment)

----------------------------------------------------------------------------
\* The outcome of every shift_node the owner of a root component can call in
\* the current state.
Shifts ==
    { [s |-> a[1], parent |-> a[2], next_sibling |-> a[3],
       w |-> ShiftNodeResult(a[1], a[2], a[3])] :
        a \in { a \in Roots \X Parents \X NodeRefs : ~panicked } }

\* the ComponentState st after it was put at parent, before next_sibling
Relocated(st, parent, next_sibling) ==
    Some([st EXCEPT !.parent = parent, !.next_sibling = next_sibling])

\* the children of the component in the slot of s
ChildrenOf(s) == IF state[s] = None THEN {} ELSE Range(state[s][1].children)

\* C21: shift(new_parent, new_next_sibling) only relocates.  No component
\* renders and no rendered hook runs; the component and the child components
\* of its bundle keep their props, their tracked suspension and every other
\* field, and get the new parent and a next_sibling linked to the new
\* reference; the realized bundle or the nodes of the fragment are moved; the
\* scheduler, the Suspense boundary and the Suspensions are left alone.
\* shift_node on a destroyed Scope changes nothing.
C21_ShiftOnlyRelocates ==
    \A a \in Shifts :
        /\ \A c \in ScopeIds :
               /\ ~Has(a.w.trace, "view", c)
               /\ ~Has(a.w.trace, "rendered", c)
               /\ ~Has(a.w.trace, "changed", c)
        /\ state[a.s] = None => Effect(a.w) = Effect(World(NoReports))
        /\ state[a.s] # None =>
               /\ a.w.state[a.s] = Relocated(state[a.s][1], a.parent, a.next_sibling)
               /\ \A c \in ChildrenOf(a.s) :
                      state[c] # None =>
                          a.w.state[c] = Relocated(state[c][1], a.parent,
                                                   stable_next_sibling(a.s))
               /\ \A c \in ScopeIds \ ({a.s} \cup ChildrenOf(a.s)) :
                      a.w.state[c] = state[c]
               /\ [Effect(a.w) EXCEPT !.state = state, !.dom = dom]
                      = Effect(World(NoReports))
               /\ state[a.s][1].rendered = "Bundle" =>
                      /\ Has(a.w.trace, "Bundle_shift", a.s)
                      /\ a.w.dom = dom
               /\ state[a.s][1].rendered = "Fragment" =>
                      \A q \in Parents :
                          \A n \in Range(state[a.s][1].fragment) :
                              n \in Range(a.w.dom[q]) <=> q = a.parent

\* a component that waits on a Suspension was moved to a detached parent, or
\* one that is still a fragment of server nodes was
C21_Witness ==
    \E s \in Roots :
        /\ state[s] # None
        /\ state[s][1].parent # Visible
        /\ state[s][1].suspension # 0
        /\ state[s][1].rendered = "Fragment"
        /\ state[s][1].fragment # <<>>

----------------------------------------------------------------------------
\* the next_sibling of the Slot of s reads whatever node the reference
\* node_ref is pointed at afterwards, with no call on the Slot
Aliased(w, s, node_ref) ==
    \A x \in Siblings :
        NodeRef_get(NodeRef_set(w, node_ref, x), w.state[s][1].next_sibling) = x

\* so do the Slots of the child components of s that were given the
\* next_sibling of s (a hydrated child has none until it is given one)
Follows(w, s, node_ref) ==
    w.state[s] # None =>
        /\ Aliased(w, s, node_ref)
        /\ \A c \in Range(w.state[s][1].children) :
               (w.state[c] # None /\ w.state[c][1].next_sibling # Trapped) =>
                   Aliased(w, c, node_ref)

\* C22: the next_sibling of a Slot is an alias of the reference it was given.
\* After BundleLocation::new_child, mount_in_place, shift and
\* changed(_, Some(next_sibling)), pointing the reference that was handed in
\* at another node is read through the Slot's own next_sibling, and through
\* the Slots nested in it, with no further call on them.
C22_NextSiblingIsAlias ==
    /\ \A q \in Parents, n \in NodeRefs, x \in Siblings :
           NodeRef_get(NodeRef_set(World(NoReports), n, x),
                       BundleLocation_new_child(q, n).next_sibling) = x
    /\ ~panicked =>
           /\ \A p \in PropsUniverse, r \in Reports :
                  (counter = 0 /\ Renders(r, {counter, counter + 1})) =>
                      With(MountRootResult(p, r),
                           LAMBDA w : /\ w.state[0] # None
                                      /\ Follows(w, 0, DefaultRef))
           /\ \A a \in Shifts : Follows(a.w, a.s, a.next_sibling)
           /\ \A s \in Roots, p \in PropsUniverse, n \in NodeRefs, r \in Reports :
                  Renders(r, Family(s)) =>
                      With(ReuseResult(s, p, n, r),
                           LAMBDA w : (~w.panicked /\ InBounds(w)) => Follows(w, s, n))
    /\ \A s \in Live :
           \A c \in ChildrenOf(s) :
               (state[c] # None /\ state[c][1].next_sibling # Trapped) =>
                   NodeRef_get(World(NoReports), state[c][1].next_sibling)
                       = NodeRef_get(World(NoReports), state[s][1].next_sibling)

\* a component was given another reference by changed or shift, the reference
\* was pointed at a node afterwards, and the Slot of the component and the
\* Slot of its child read that node
C22_Witness ==
    \E s \in Roots :
        /\ state[s] # None
        /\ state[s][1].next_sibling = "b"
        /\ refs["b"] = Some(Anchor)
        /\ refs[DefaultRef] = None
        /\ \E c \in ChildrenOf(s) :
               /\ state[c] # None
               /\ state[c][1].next_sibling = stable_next_sibling(s)
               /\ NodeRef_get(World(NoReports), state[c][1].next_sibling) = Some(Anchor)

----------------------------------------------------------------------------
\* The outcome of every step the server renderer can take in the current
\* state, with what prepare_state returned during it.
Streams ==
    { x \in
        { [prepared |-> a[3], w |-> RenderStreamResult(a[1], a[2], a[3])] :
            a \in { a \in Apps \X Reports \X Prepared :
                      counter = 0 /\ Renders(a[2], ScopeIds) } }
        \cup
        { [prepared |-> a[2], w |-> PollResult(a[1], a[2])] :
            a \in { a \in Reports \X Prepared :
                      /\ pc[0].at \in {"rx", "child"}
                      /\ rx[Awaited(0)] # None
                      /\ Renders(a[1], ScopeIds \ Allocated) } }
      : ~panicked /\ InBounds(x.w) }

\* the Scopes whose render_into_stream returns during the step
Ended(x) == { s \in ScopeIds : pc[s].at # "end" /\ x.w.pc[s].at = "end" }

\* what was written for the Scope s, in order, and what kind of string each is
Of(stream, s) == SelectSeq(stream, LAMBDA token : token.s = s)
Kinds(stream) == [i \in 1 .. Len(stream) |-> stream[i].kind]

\* the places in the stream of what was written for the Scopes in set
Places(stream, set) == { i \in 1 .. Len(stream) : stream[i].s \in set }

\* what render_into_stream has to write for a component with that layout
Expected(html, hydratable_, prepared) ==
    (IF hydratable_ THEN <<"open">> ELSE <<>>)
    \o (IF html = <<>> THEN <<"html">>
        ELSE IF hydratable_ THEN <<"<?>", "</?>">> ELSE <<>>)
    \o (IF prepared THEN <<"state">> ELSE <<>>)
    \o (IF hydratable_ THEN <<"close">> ELSE <<>>)

\* the positions in a trace of the writes made for the Scope s
WritesOf(tr, s) == { i \in 1 .. Len(tr) : tr[i][1] = "write" /\ tr[i][2] = s }

\* C23: render_into_stream writes the open marker of the component (only when
\* hydratable), then its rendered HTML, then the state of the component (only
\* when it has prepared one), then the close marker (only when hydratable).
\* What its child components write lies inside its HTML.  The Scope is
\* destroyed after all of this was written, and the open and the close marker
\* come as a pair.
C23_StreamOrder ==
    /\ \A x \in Streams :
           \A s \in Ended(x) :
               /\ Kinds(Of(x.w.out, s))
                      = Expected(x.w.rx[s][1], hydratable, x.prepared[s])
               /\ \A c \in { c \in ScopeIds : c < x.w.counter /\ x.w.parentOf[c] = s } :
                      \A i \in Places(x.w.out, {c}) :
                          \A j \in Places(x.w.out, {s}) :
                              /\ x.w.out[j].kind \in {"open", "<?>"} => j < i
                              /\ x.w.out[j].kind \in {"</?>", "state", "close"} => i < j
               /\ Has(x.w.trace, "destroy", s)
               /\ \A i \in WritesOf(x.w.trace, s) : i < Pos(x.w.trace, "destroy", s)
               /\ x.w.state[s] = None
    /\ \A s \in ScopeIds :
           /\ teardowns[s] > 0 => pc[s].at = "end"
           /\ Cardinality({ i \in Places(out, {s}) : out[i].kind = "close" })
                  = IF pc[s].at = "end" /\ hydratable THEN 1 ELSE 0
           /\ Cardinality({ i \in Places(out, {s}) : out[i].kind = "open" })
                  = IF pc[s].at # "idle" /\ hydratable THEN 1 ELSE 0

\* a hydratable page was rendered: a root with a state to hand over, around a
\* child component that was awaited
C23_Witness ==
    /\ hydratable
    /\ pc[0].at = "end"
    /\ pc[1].at = "end"
    /\ teardowns[0] = 1
    /\ Kinds(out) = <<"open", "<?>", "open", "html", "close", "</?>", "state", "close">>
    /\ resumed[1]

----------------------------------------------------------------------------
\* C24: when hydratable is false the stream holds nothing that is there only
\* to assist hydration: no open or close marker of a component, no marker of
\* a Suspense boundary and no state of a component.
C24_PlainOutputWhenNotHydratable ==
    ~hydratable =>
        \A i \in 1 .. Len(out) :
            out[i].kind \notin {"open", "close", "<?>", "</?>", "state"}

----------------------------------------------------------------------------
\* the child components of the component the server renders as Scope s
SsrChildren(s) == { c \in Allocated : parentOf[c] = s }

\* a component the server renders that has not committed a render yet
Uncommitted(s) ==
    /\ state[s] # None
    /\ state[s][1].rendered = "Ssr"
    /\ state[s][1].sender # None

\* C26: the server renders a Suspense boundary whose children suspend by
\* waiting for them.  The fallback is never written; nothing of a child is
\* written before its render was committed, which is after the Suspensions it
\* waits on have resumed; the children are written whole, one after the other
\* in document order; and the boundary is closed only after all of them.
C26_SsrAwaitsSuspendedChildren ==
    /\ \A i \in 1 .. Len(out) : out[i].kind # "fallback"
    /\ \A s \in ScopeIds :
           /\ Uncommitted(s) => rx[s] = None
           /\ (state[s] # None /\ state[s][1].suspension # 0
                 /\ ~resumed[state[s][1].suspension] /\ rx[s] = None) =>
                  pc[s].at = "rx"
           /\ rx[s] = None => Kinds(Of(out, s)) \in {<<>>, <<"open">>}
           /\ pc[s].at = "end" =>
                  Cardinality({ i \in Places(out, {s}) : out[i].kind = "html" })
                      = IF rx[s][1] = <<>> THEN 1 ELSE 0
    /\ \A s \in ScopeIds :
           \A c1 \in SsrChildren(s), c2 \in SsrChildren(s) :
               (c1 < c2 /\ pc[c2].at # "idle") =>
                   /\ pc[c1].at = "end"
                   /\ \A i \in Places(out, {c1}), j \in Places(out, {c2}) : i < j
    /\ \A s \in ScopeIds :
           (pc[s].at = "end" \/ \E i \in Places(out, {s}) : out[i].kind = "</?>") =>
               /\ Cardinality(SsrChildren(s)) = Len(rx[s][1])
               /\ \A c \in SsrChildren(s) : pc[c].at = "end"

\* the first child of the boundary was written after the Suspension it waited
\* on resumed, and the second child is awaited: the stream ends with the first
\* child, the boundary is open
C26_Witness ==
    /\ pc[0].at = "child"
    /\ pc[0].i = 2
    /\ resumed[1]
    /\ ~resumed[2]
    /\ teardowns[1] = 1
    /\ state[2] # None
    /\ state[2][1].suspension = 2
    /\ Uncommitted(2)
    /\ Kinds(out) = <<"open", "<?>", "open", "html", "close", "open">>

\* the hydrations of the page as the root component that can happen now
RootHydrations ==
    { HydrateRootResult(a[1], a[2]) :
        a \in { a \in PropsUniverse \X Reports :
                  counter = 0 /\ Renders(a[2], {counter, counter + 1}) } }

\* the places of the events of a kind about a Scope in a trace
At(tr, kind, s) == { i \in 1 .. Len(tr) : tr[i][1] = kind /\ tr[i][2] = s }

\* the Fragments the component of a Scope held when it was viewed
Viewed(tr, s) == { tr[i][3].fragment : i \in At(tr, "view", s) }

\* C25: hydrate_in_place takes the prepared state only from the last node of
\* the collected fragment and only if it is a script element of the type of
\* the state of a component: that node is popped from the fragment and
\* removed from the physical parent before the component is created, and is
\* in no fragment the component is viewed with; in every other case
\* prepared_state is None, no node is removed before the component is created
\* and the component is created with the whole fragment.
C25_PreparedStateFromLastScript ==
    \A w \in RootHydrations :
        With(Inside(dom[Visible]), LAMBDA F :
            IF F # <<>> /\ F[Len(F)].tag = StateScript
            THEN /\ w.prepared_state[counter] = Some(text(F[Len(F)]))
                 /\ At(w.trace, "remove_child", counter) # {}
                 /\ \A i \in At(w.trace, "remove_child", counter) :
                        /\ w.trace[i][3] = F[Len(F)]
                        /\ \A j \in At(w.trace, "run_create", counter) : i < j
                 /\ \A q \in Parents : F[Len(F)] \notin Range(w.dom[q])
                 /\ At(w.trace, "view", counter) # {}
                 /\ \A f \in Viewed(w.trace, counter) : F[Len(F)] \notin Range(f)
                 /\ \E i \in At(w.trace, "view", counter) :
                        /\ w.trace[i][3].fragment = pop_back(F)
                        /\ \A j \in At(w.trace, "view", counter) : i <= j
            ELSE /\ w.prepared_state[counter] = None
                 /\ At(w.trace, "remove_child", counter) = {}
                 /\ At(w.trace, "view", counter) # {}
                 /\ \E i \in At(w.trace, "view", counter) :
                        /\ w.trace[i][3].fragment = F
                        /\ \A j \in At(w.trace, "view", counter) : i <= j)

\* a page that ended with the state of the root component has been hydrated:
\* the component holds the state, the page no longer holds the script element
C25_Witness ==
    /\ state[0] # None
    /\ ~panicked
    /\ prepared_state[0] # None
    /\ \A i \in 1 .. Len(dom[Visible]) : dom[Visible][i].tag # StateScript

\* what a render or an access of the handle can do now: [h, rendering, before],
\* the outcome, whether it is a render, and the value the cell held
Accesses ==
    { [h |-> RenderRefResult(x[1], x[2]), rendering |-> TRUE, call |-> x[2],
       before |-> IF inner = None THEN x[1] ELSE inner[1].value] :
        x \in { x \in Values \X Calls : ~aborted } }
    \cup
    { [h |-> AccessRefResult(c), rendering |-> FALSE, call |-> c,
       before |-> inner[1].value] :
        c \in { c \in Calls : ~aborted /\ inner # None } }

\* how many times a closure ran in a log
Ran(log, f) == Cardinality({ i \in 1 .. Len(log) : log[i] = <<"ran", f>> })

\* C27: with_mut called during a render panics and the closure is not run, so
\* the value is unchanged; outside rendering, with_mut runs the closure on the
\* value exactly once and, unless the closure panics, returns its result.
C27_WithMutGuardedByRendering ==
    \A a \in Accesses :
        a.call.op = "with_mut" =>
            IF a.rendering
            THEN /\ a.h.aborted
                 /\ \A i \in 1 .. Len(a.h.log) : a.h.log[i][1] # "ran"
                 /\ a.h.inner[1].value = a.before
            ELSE /\ Ran(a.h.log, a.call.f) = 1
                 /\ \/ a.h.aborted
                    \/ a.h.log[Len(a.h.log)] =
                           <<"ret", "with_mut", a.call.f,
                             a.h.inner[1].value, a.h.inner[1].value>>

\* the places of the calls of an accessor in a log; the first is the call the
\* view function or the effect made, a later one is made by its closure
CallsAt(log) == { i \in 1 .. Len(log) : log[i][1] = "call" }

Outer(log) == CHOOSE i \in CallsAt(log) : \A j \in CallsAt(log) : i <= j

\* the call at a place of a log finds the cell borrowed in a way that
\* conflicts with its own: it is made by the closure of a call that holds
\* &mut T, or it asks for &mut T and is made by any closure
Conflict(log, i) ==
    /\ i # Outer(log)
    /\ log[Outer(log)][2] \in Mutable \/ log[i][2] \in Mutable

Fallible == {"try_with", "try_with_mut"}

Read == [writes |-> None, then |-> None]
Write(x) == [writes |-> Some(x), then |-> None]

\* the event of the initializer in a log
Inits(log) == { i \in 1 .. Len(log) : log[i][1] = "init" }

\* C29: the initializer of use_ref runs in the first render of the component
\* and in no later one; with reads in a render what the initializer returned
\* in the first render, and in every later render the value the cell holds:
\* what with_mut wrote between two renders is what with reads in the next.
C29_UseRefPersists ==
    ~aborted =>
        \A v \in Values, x \in Values, y \in Values :
            With(view(Hook, v, [op |-> "with", f |-> Read]), LAMBDA r1 :
            With(effect(r1, [op |-> "with_mut", f |-> Write(x)]), LAMBDA e :
            With(view(e, y, [op |-> "with", f |-> Read]), LAMBDA r2 :
                /\ ~r1.aborted /\ ~e.aborted /\ ~r2.aborted
                /\ IF inner = None
                   THEN /\ Inits(r1.log) = {2}
                        /\ r1.log[2] = <<"init", v>>
                        /\ r1.log[Len(r1.log)] = <<"ret", "with", Read, v, v>>
                   ELSE /\ Inits(r1.log) = {}
                        /\ r1.log[Len(r1.log)] =
                               <<"ret", "with", Read, inner[1].value, inner[1].value>>
                /\ Inits(r2.log) = {}
                /\ r2.log[Len(r2.log)] = <<"ret", "with", Read, x, x>>)))

\* a later render of the component has read the value with, after with_mut
\* wrote it: the initializer did not run again
C29_Witness ==
    /\ ~aborted
    /\ inner # None
    /\ Len(accessed) = 4
    /\ accessed[1] = <<"render">>
    /\ accessed[2] = <<"call", "with", Read, inner[1].value>>
    /\ accessed[4] = <<"ret", "with", Read, inner[1].value, inner[1].value>>

\* the agents a state spawned, and the bridges it handed out
SpawnedBy(ctr) == { i \in 1 .. Len(agents) : agents[i].by = ctr }
HandedBy(ctr) == { j \in 1 .. Len(bridges) : bridges[j].of = ctr }

\* C30: a state of a provider with Public reach spawns at most one agent:
\* when it is created if lazy is false, otherwise for the first bridge it is
\* asked for; it holds the bridge of that agent and every bridge it hands out
\* is a fork of it.  A state with Private reach spawns an agent of its own for
\* every bridge it is asked for and holds nothing, whatever lazy is.
C30_PublicAgentSpawnedOnce ==
    \A c \in 1 .. Len(providers) :
        With(providers[c], LAMBDA self :
            IF self.reach = "Public"
            THEN /\ Cardinality(SpawnedBy(self.ctr)) <= 1
                 /\ self.held_bridge =
                        IF SpawnedBy(self.ctr) = {} THEN None
                        ELSE Some(CHOOSE i \in SpawnedBy(self.ctr) : TRUE)
                 /\ \A i \in SpawnedBy(self.ctr) :
                        /\ agents[i].path = self.path
                        /\ IF self.lazy
                           THEN /\ HandedBy(self.ctr) # {}
                                /\ agents[i].at =
                                       CHOOSE j \in HandedBy(self.ctr) :
                                           \A k \in HandedBy(self.ctr) : j <= k
                           ELSE agents[i].at = 0
                 /\ (~self.lazy \/ HandedBy(self.ctr) # {}) => SpawnedBy(self.ctr) # {}
                 /\ \A j \in HandedBy(self.ctr) :
                        bridges[j].fork /\ Some(bridges[j].agent) = self.held_bridge
            ELSE /\ self.held_bridge = None
                 /\ \A j \in HandedBy(self.ctr) :
                        /\ ~bridges[j].fork
                        /\ bridges[j].agent \in SpawnedBy(self.ctr)
                        /\ agents[bridges[j].agent].at = j
                        /\ agents[bridges[j].agent].path = self.path
                 /\ \A i \in SpawnedBy(self.ctr) :
                        agents[i].at \in HandedBy(self.ctr))

\* a lazy state with Public reach and a state with Private reach have each
\* handed out more than one bridge
C30_Witness ==
    /\ \E c \in 1 .. Len(providers) :
           /\ providers[c].reach = "Public" /\ providers[c].lazy
           /\ Cardinality(HandedBy(providers[c].ctr)) >= 2
    /\ \E c \in 1 .. Len(providers) :
           /\ providers[c].reach = "Private"
           /\ Cardinality(HandedBy(providers[c].ctr)) >= 1

\* C31: use_bridge bridges to the worker in the first render of the component
\* and in no later one; every render stores the callback it passes, so an
\* output that arrives after render N is handed to the callback of render N
\* and to no other.
C31_BridgeOnceCallbackCurrent ==
    /\ bridged = (IF passes = 0 THEN 0 ELSE 1)
    /\ (handle = None) = (passes = 0)
    /\ handle # None => handle[1].inner = 1 /\ handle[1].on_output = Some(passes)
    /\ \A i \in 1 .. Len(delivered) : delivered[i].to = delivered[i].after

\* an output arrived after the first render and another after a later render
C31_Witness ==
    /\ passes >= 2
    /\ \E i, j \in 1 .. Len(delivered) :
           delivered[i].after = 1 /\ delivered[j].after = passes

\* the Suspensions the live components of a world track
Tracked(slots) ==
    { slots[s][1].suspension :
        s \in { s \in ScopeIds : slots[s] # None /\ slots[s][1].suspension # 0 } }

\* the places in a trace where the render of s ended: in a commit or suspended
EndsOfRender(tr, s) ==
    { i \in 1 .. Len(tr) :
        /\ tr[i][2] = s
        /\ \/ tr[i][1] \in {"reconcile", "hydrate"}
           \/ tr[i][1] = "suspend" /\ ~tr[i][4] }

\* the last render of s in the trace ended in a commit
Committed(tr, s) ==
    /\ EndsOfRender(tr, s) # {}
    /\ \A i \in EndsOfRender(tr, s) :
           (\A j \in EndsOfRender(tr, s) : j <= i) => tr[i][1] # "suspend"

\* C32: the Suspense boundary counts only Suspensions that a live component
\* tracks: a component whose last render committed tracks none, a destroyed
\* component tracks none, and the boundary counts no Suspension but those of
\* the components that are live and suspended.
C32_BoundaryInStepWithComponents ==
    /\ ~panicked => boundary \subseteq Tracked(state)
    /\ \A w \in Outcomes :
           ~w.panicked =>
               /\ w.boundary \subseteq Tracked(w.state)
               /\ \A s \in ScopeIds :
                      (w.state[s] # None /\ Committed(w.trace, s))
                          => w.state[s][1].suspension = 0

\* a component that was suspended has committed, another has been destroyed
\* while it was suspended, and the boundary counts nothing
C32_Witness ==
    /\ ~panicked
    /\ boundary = {}
    /\ \E s \in ScopeIds : state[s] # None /\ state[s][1].suspension = 0 /\ resumed[1]
    /\ \E s \in ScopeIds : teardowns[s] > 0

\* the commits of the renders of s in a trace
CommitsOf(tr, s) ==
    { i \in 1 .. Len(tr) : tr[i][2] = s /\ tr[i][1] \in {"reconcile", "hydrate"} }

\* C33: a component is in Fragment state only if it was created by hydration
\* and no render of it has committed yet, so it is suspended; its first
\* successful commit hydrates and makes it a Bundle, every later commit
\* reconciles, and a component in Bundle state stays in Bundle state.  A
\* component mounted without hydration is in Bundle state from its creation.
C33_FragmentBecomesBundleOnce ==
    /\ \A s \in ScopeIds :
           (~panicked /\ state[s] # None) =>
               /\ state[s][1].rendered \in {"Bundle", "Fragment"}
               /\ state[s][1].creation_mode = "Render" => state[s][1].rendered = "Bundle"
               /\ state[s][1].rendered = "Fragment" => state[s][1].suspension # 0
    /\ \A w \in Outcomes :
           \A s \in ScopeIds :
               (~w.panicked /\ w.state[s] # None) =>
                   With(CommitsOf(w.trace, s), LAMBDA commits :
                       /\ (state[s] # None /\ state[s][1].rendered = "Bundle")
                              => /\ w.state[s][1].rendered = "Bundle"
                                 /\ \A i \in commits : w.trace[i][1] = "reconcile"
                       /\ w.state[s][1].rendered = "Fragment" => commits = {}
                       /\ commits # {} => w.state[s][1].rendered = "Bundle"
                       /\ Cardinality({ i \in commits : w.trace[i][1] = "hydrate" }) <= 1
                       /\ \A i \in commits :
                              w.trace[i][1] = "hydrate" =>
                                  /\ \A j \in commits : i <= j
                                  /\ state[s] = None \/ state[s][1].rendered = "Fragment"
                                  /\ w.state[s][1].creation_mode = "Hydration")

\* a component created by hydration that was suspended in Fragment state is a
\* Bundle after its render committed
C33_Witness ==
    /\ ~panicked
    /\ state[0] # None
    /\ state[0][1].creation_mode = "Hydration"
    /\ state[0][1].rendered = "Bundle"
    /\ resumed[1]
    /\ \E s \in ScopeIds \ {0} :
           /\ state[s] # None /\ state[s][1].creation_mode = "Hydration"
           /\ state[s][1].rendered = "Fragment"

\* the renders of s in a trace
ViewsOf(tr, s) == { i \in 1 .. Len(tr) : tr[i][1] = "view" /\ tr[i][2] = s }

\* the state the component of s was in when the render that ended at i began
StateAt(tr, s, i) ==
    tr[CHOOSE j \in ViewsOf(tr, s) :
           j < i /\ \A k \in ViewsOf(tr, s) : k < i => k <= j][3]

\* C34: props that changed delivers to a component in Fragment state are
\* stored as pending and no render follows; after the commit that hydrates the
\* component they are its current props, none is pending and a render with
\* them has run in the same operation.
C34_PendingPropsApplied ==
    \A w \in Outcomes :
        /\ \A c \in ChangedCalls(w.trace) :
               (c.st.rendered = "Fragment" /\ c.props # None) =>
                   /\ ~ViewAt(w.trace, c.at + 1, c.s)
                   /\ (w.state[c.s] # None /\ CommitsOf(w.trace, c.s) = {})
                          => w.state[c.s][1].pending_props # None
        /\ \A s \in ScopeIds :
               \A i \in CommitsOf(w.trace, s) :
                   (/\ w.trace[i][1] = "hydrate"
                    /\ ~w.panicked
                    /\ w.state[s] # None
                    /\ StateAt(w.trace, s, i).pending_props # None) =>
                       /\ w.state[s][1].pending_props = None
                       /\ w.state[s][1].props = StateAt(w.trace, s, i).pending_props[1]
                       /\ \E k \in ViewsOf(w.trace, s) :
                              /\ i < k
                              /\ w.trace[k][3].props =
                                     StateAt(w.trace, s, i).pending_props[1]

\* the calls of the rendered hook of s in a trace
HooksOf(tr, s) == { i \in 1 .. Len(tr) : tr[i][1] = "rendered" /\ tr[i][2] = s }

\* the first lifecycle event of s after place i of a trace: a render, the end
\* of one, or the call of its rendered hook
NextOf(tr, s, i) ==
    { j \in ViewsOf(tr, s) \cup EndsOfRender(tr, s) \cup HooksOf(tr, s) :
        /\ i < j
        /\ \A k \in ViewsOf(tr, s) \cup EndsOfRender(tr, s) \cup HooksOf(tr, s) :
               i < k => j <= k }

\* C35: every commit of a render of a component that succeeds, the commit
\* that hydrates it included, is followed by one call of the rendered hook of
\* the component before anything else happens to it, and a rendered hook is
\* called only after a commit; a render that suspends calls none.
C35_RenderedHookAfterEveryCommit ==
    \A w \in Outcomes :
        ~w.panicked =>
            \A s \in ScopeIds :
                /\ \A i \in CommitsOf(w.trace, s) :
                       /\ NextOf(w.trace, s, i) # {}
                       /\ NextOf(w.trace, s, i) \subseteq HooksOf(w.trace, s)
                /\ \A i \in EndsOfRender(w.trace, s) \ CommitsOf(w.trace, s) :
                       NextOf(w.trace, s, i) \cap HooksOf(w.trace, s) = {}
                /\ \A i \in HooksOf(w.trace, s) :
                       NextOf(w.trace, s, i) \cap HooksOf(w.trace, s) = {}
                /\ Cardinality(HooksOf(w.trace, s)) <= Cardinality(CommitsOf(w.trace, s))

\* C36: once run_destroy has emptied the slot of a Scope, no call on the Scope
\* fills the slot again or renders its component: run_render and
\* run_update_props leave the slot empty and render nothing, and so does
\* run_create, so no slot is ever filled twice.
C36_DestroyedIsTerminal ==
    \A s \in ScopeIds :
        /\ installs[s] <= 1
        /\ (teardowns[s] > 0 /\ state[s] = None) =>
               /\ run_render(World(NoReports), s).state[s] = None
               /\ \A p \in PropsUniverse, n \in NodeRefs :
                      With(run_update_props(World(NoReports), s, Some(p), Some(n)),
                           LAMBDA w : w.state[s] = None /\ ViewsOf(w.trace, s) = {})
               /\ \A p \in PropsUniverse :
                      With(run_create(World(NoReports), s, p, "Render", Realized_Bundle,
                                      DefaultRef),
                           LAMBDA w : w.state[s] = None /\ ViewsOf(w.trace, s) = {})


\* C37: after any sequence of BufWriter::write calls and the drop of the
\* writer, the chunks received and the chunks still on the stream, in order,
\* are the strings written, in write order; while the writer lives, what is
\* missing from the stream is exactly the text of its buffer; and what render
\* returns is the concatenation of the strings written.
C37_ChunksAreWhatWasWritten ==
    /\ writer # None =>
           collected \o Flatten(tx) \o writer[1].buf.text = Written(out, 1)
    /\ closed => collected \o Flatten(tx) = Written(out, 1)
    /\ finished => collected = Written(out, 1)

\* render returned after a part longer than the capacity was written behind
\* a buffered part, and a part that fits was written after it
C37_Witness ==
    /\ finished
    /\ capacity \in 1..MaxCap
    /\ Len(out) = MaxParts
    /\ \E i \in 2..(Len(out) - 1) :
           /\ Size(out[i - 1]) \in 1..capacity
           /\ Size(out[i]) > capacity
           /\ Size(out[i + 1]) \in 1..capacity

\* C38: the text held unsent in the buffer of the BufWriter is never longer
\* than the configured capacity.
C38_BufferWithinCapacity ==
    writer # None => Len(writer[1].buf.text) <= writer[1].capacity

\* C39: a render that was started returns, provided every Suspension
\* resumes; when it returns the render_into_stream of the root has finished,
\* the writer was dropped, nothing is left on the stream and the text
\* returned is everything that was written; the stream ends only when the
\* render_into_stream of the root has finished, and with the buffer flushed.
C39_Complete ==
    /\ closed => /\ pc[0].at = "end"
                 /\ writer = None
                 /\ collected \o Flatten(tx) = Written(out, 1)
    /\ finished => /\ closed
                   /\ tx = <<>>
                   /\ collected = Written(out, 1)

C39_RenderTerminates ==
    /\ []C39_Complete
    /\ (counter > 0) ~> finished

\* render returned a page of a tree with a child component that was suspended,
\* with a buffer smaller than the page
C39_Witness ==
    /\ finished
    /\ counter > 1
    /\ capacity \in 1..MaxCap
    /\ \A id \in SuspIds : resumed[id]
    /\ Len(collected) > capacity

\* C40: every agent a WorkerProvider<W, CODEC> spawned was spawned with the
\* encoding set to the CODEC of the provider, whichever path spawned it: the
\* creation of the state, the first create_bridge of a lazy Public provider,
\* or a create_bridge of a Private provider.
C40_SpawnedWithCodec ==
    \A i \in 1 .. Len(agents) : agents[i].encoding = "CODEC"

====
